---------------------------- MODULE Spec2Model ----------------------------
(***************************************************************************)
(* A model of the ffmpeg-dialogue video generator.                         *)
(*                                                                         *)
(*   Spec           the job record of one job (FileJobService): the HTTP   *)
(*                  handler that creates and submits it, the background    *)
(*                  task run_job with the pipeline of                      *)
(*                  _process_video_generation, concurrent cancel_job       *)
(*                  callers and a concurrent get_job_status reader, at the *)
(*                  granularity of the file and flock operations.          *)
(*   SpecAnalyze    AudioService.analyze_audio_durations.                  *)
(*   SpecTranscribe TranscriptionService.transcribe_scene_audios.          *)
(*                                                                         *)
(* Every job has a file and a lock of its own (jobs_dir/<job_id>.json) and *)
(* shares nothing else with the other jobs but the executor, so Spec       *)
(* follows one job.                                                        *)
(***************************************************************************)
EXTENDS Integers, Sequences, FiniteSets, TLC

VARIABLES
    \* ---- the job record store (Spec)
    file,          \* the job file: [state, data]
    lockEx,        \* the thread holding flock LOCK_EX, or NoThread
    lockSh,        \* the threads holding flock LOCK_SH
    pc,            \* each thread's position in its method
    phase,         \* each thread's position inside _read/_update/_write_job_file
    upd,           \* each thread's `updates` (or `job_data` of create_job)
    jd,            \* each thread's `job_data` returned by _read_job_file
    ret,           \* what each caller's last cancel_job or get_job_status returned
    cancelOk,      \* history: some cancel_job has returned True
    idx,           \* the pipeline's position in Script
    cfgCaptions,   \* settings.enable_subtitles and config.get_subtitle_element()
    transcribed,   \* whether transcribe_scene_audios returned a non-empty list
    stagesStarted, \* history: the stages the pipeline has started
    stagesOk,      \* history: the stages that returned
    raised,        \* history: the message of the exception a stage raised
    committed,     \* history: the updates applied one after another, in commit order
    rdExisted,     \* history: whether create_job had returned when the read began
    \* ---- analyze_audio_durations (SpecAnalyze)
    aConfig,       \* config.scenes: the src of the audio elements of each scene
    aPc,           \* position in analyze_audio_durations
    aTasks,        \* audio_tasks
    aOutcome,      \* what each task's get_audio_duration did, "pending" before
    aCollected,    \* the futures as_completed has handed out
    aOrder,        \* history: the tasks in the order they were collected
    aResults,      \* audio_results
    aTotal,        \* total_duration
    aReturned,     \* the value returned
    \* ---- transcribe_scene_audios (SpecTranscribe)
    tConfig,       \* config.get_subtitle_element() and settings.enable_subtitles
    tAudioInfo,    \* audio_info
    tTimings,      \* scene_timings
    tPc,           \* position in transcribe_scene_audios
    tTasks,        \* transcription_tasks
    tOutcome,      \* what each task's future did, "pending" before
    tCollected,    \* the futures as_completed has handed out
    tResults,      \* transcription_results, in insertion order
    tReturned,     \* the value returned
    \* ---- calculate_scene_timings (SpecTimings)
    stAudioResults, \* audio_results
    stPc,           \* position in calculate_scene_timings
    stTimings,      \* the value returned
    \* ---- create_ass_subtitle_file (SpecCaptions)
    cpStyle,        \* subtitle_config.style
    cpTranscriptions, \* transcriptions
    cpTimings,      \* scene_timings
    cpPc,           \* position in create_ass_subtitle_file
    cpEvents,       \* the Dialogue lines written, in order
    cpFile,         \* the value returned: whether a file was written
    \* ---- the executor of FileJobService (SpecPool)
    plStatus, \* the status stored for each job, "none" before create_job
    plQueue, \* the executor's work queue: the submitted run_job calls not yet taken
    plRunning, \* the jobs whose run_job a worker thread is executing
    plStarted, \* the running jobs whose run_job has written processing
    \* ---- whisper calls that never return (SpecTranscribeTimeout)
    tHung, \* the transcription tasks whose whisper call never returns
    \* ---- one request through generate_video_async and _process_video_generation (SpecPipeline)
    pvRequest, \* the configuration posted to /generate-video and the subtitle setting
    pvPc, \* where the request or its job is
    pvHttp, \* the status code the request was answered with, 0 before
    pvStatus, \* the status stored for the job, "none" while there is no job
    pvError, \* the error stored by fail_job
    pvAudioInfo, \* audio_info as analyze_audio_durations returned it
    pvProbes, \* the number of duration probe tasks submitted
    pvTranscriptions, \* the number of transcription tasks submitted
    pvCaptions, \* create_ass_subtitle_file was called
    pvRender, \* the ffmpeg process was started
    pvAttempts, \* the number of ffmpeg processes run by execute_ffmpeg_command
    pvProcess, \* how the ffmpeg process ended, <<>> before
    pvFailure, \* the exception execute_ffmpeg_command raised, <<>> if none
    \* ---- FFmpegService.generate_ffmpeg_command (SpecBuild)
    bdConfig, \* config
    bdAudioInfo, \* audio_info, the probe list
    bdSubtitle, \* subtitle_file_path, "" for None
    bdPc, \* "call" before the call, "returned" or "raised" after it
    bdRaised, \* the exception the call raised: its class and its message
    bdCommand, \* cmd_parts as returned, <<>> if nothing was returned
    bdHistory, \* the arguments and the result of every call made so far
    \* ---- the retention sweep and one job's writers (SpecSweep)
    swRecord, \* the job file: <<>> if there is none, else <<its status and completed_at>>
    swClock, \* the time, in hours
    swWorker, \* where run_job of the job is
    swPc, \* where the cleanup thread is
    swCutoff, \* cutoff_time of the sweep in progress
    swSeen, \* job_data as the sweep read it
    swDeleted, \* the record the unlinked file held and the time of the unlink
    \* ---- GET /jobs: list_jobs (SpecList)
    lsJobs, \* the job files: for job k, the k-th created, its stored status and the rank of its modification time
    lsFilter, \* the status query parameter, "" if absent
    lsLimit, \* the limit query parameter
    lsPc, \* "call" before the request, "returned" after it
    lsResult, \* the jobs of the response, in order
    \* ---- progress of a job (SpecProgress)
    pgJob, \* the job file: <<>> before create_job, then <<the record>>
    pgLast, \* the last call on the job and the percent given to it
    pgCalls, \* the number of calls made
    \* ---- caption colors (SpecColor)
    clColor, \* the color string of the caption settings, as a sequence of characters
    clPc, \* "call" before _parse_color, "returned" after it
    clResult \* the value _parse_color returned

jobVars == <<file, lockEx, lockSh, pc, phase, upd, jd, ret, cancelOk, idx, cfgCaptions,
             transcribed, stagesStarted, stagesOk, raised, committed, rdExisted>>
analyzeVars == <<aConfig, aPc, aTasks, aOutcome, aCollected, aOrder, aResults,
                 aTotal, aReturned>>
transcribeVars == <<tConfig, tAudioInfo, tTimings, tPc, tTasks, tOutcome,
                    tCollected, tResults, tReturned>>
timingVars == <<stAudioResults, stPc, stTimings>>
captionVars == <<cpStyle, cpTranscriptions, cpTimings, cpPc, cpEvents, cpFile>>
poolVars == <<plStatus, plQueue, plRunning, plStarted>>
hangVars == <<tHung>>
pipeVars == <<pvRequest, pvPc, pvHttp, pvStatus, pvError, pvAudioInfo, pvProbes, pvTranscriptions, pvCaptions, pvRender, pvAttempts, pvProcess, pvFailure>>
buildVars == <<bdConfig, bdAudioInfo, bdSubtitle, bdPc, bdRaised, bdCommand, bdHistory>>
sweepVars == <<swRecord, swClock, swWorker, swPc, swCutoff, swSeen, swDeleted>>
listVars == <<lsJobs, lsFilter, lsLimit, lsPc, lsResult>>
progressVars == <<pgJob, pgLast, pgCalls>>
colorVars == <<clColor, clPc, clResult>>
moreVars == <<timingVars, captionVars, poolVars, hangVars, pipeVars, buildVars, sweepVars, listVars, progressVars, colorVars>>
notTimingVars == <<jobVars, analyzeVars, transcribeVars, captionVars, poolVars, hangVars, pipeVars, buildVars, sweepVars, listVars, progressVars, colorVars>>
notCaptionVars == <<jobVars, analyzeVars, transcribeVars, timingVars, poolVars, hangVars, pipeVars, buildVars, sweepVars, listVars, progressVars, colorVars>>
notPoolVars == <<jobVars, analyzeVars, transcribeVars, timingVars, captionVars, hangVars, pipeVars, buildVars, sweepVars, listVars, progressVars, colorVars>>
notHangVars == <<jobVars, analyzeVars, transcribeVars, timingVars, captionVars, poolVars, pipeVars, buildVars, sweepVars, listVars, progressVars, colorVars>>
notPipeVars == <<jobVars, analyzeVars, transcribeVars, timingVars, captionVars, poolVars, hangVars, buildVars, sweepVars, listVars, progressVars, colorVars>>
notBuildVars == <<jobVars, analyzeVars, transcribeVars, timingVars, captionVars, poolVars, hangVars, pipeVars, sweepVars, listVars, progressVars, colorVars>>
notSweepVars == <<jobVars, analyzeVars, transcribeVars, timingVars, captionVars, poolVars, hangVars, pipeVars, buildVars, listVars, progressVars, colorVars>>
notListVars == <<jobVars, analyzeVars, transcribeVars, timingVars, captionVars, poolVars, hangVars, pipeVars, buildVars, sweepVars, progressVars, colorVars>>
notProgressVars == <<jobVars, analyzeVars, transcribeVars, timingVars, captionVars, poolVars, hangVars, pipeVars, buildVars, sweepVars, listVars, colorVars>>
notColorVars == <<jobVars, analyzeVars, transcribeVars, timingVars, captionVars, poolVars, hangVars, pipeVars, buildVars, sweepVars, listVars, progressVars>>
vars == <<jobVars, analyzeVars, transcribeVars, moreVars>>

(***************************************************************************)
(* Bounds of the model.                                                    *)
(***************************************************************************)
MaxCancellers == 1      \* concurrent callers of cancel_job

(***************************************************************************)
(* JobStatus and the job record.                                           *)
(***************************************************************************)
PENDING == "pending"
PROCESSING == "processing"
COMPLETED == "completed"
FAILED == "failed"
CANCELLED == "cancelled"
JobStatus == {PENDING, PROCESSING, COMPLETED, FAILED, CANCELLED}
Terminal == {COMPLETED, FAILED, CANCELLED}

None == "None"
Now == "T"      \* datetime.utcnow().isoformat(): some timestamp

\* The record written by create_job. updated_at (always rewritten with the
\* time of the write), video_id (a copy of job_id) and download_url,
\* output_size_mb (copies of fields of result) are not kept apart.
NewJobData ==
    [job_id |-> "job", status |-> PENDING, created_at |-> Now,
     started_at |-> None, completed_at |-> None, progress |-> 0,
     current_step |-> "Queued", error |-> None, result |-> None,
     duration_seconds |-> None, config |-> "config"]

\* dict.update
Merge(data, updates) ==
    [f \in DOMAIN data |-> IF f \in DOMAIN updates THEN updates[f] ELSE data[f]]

NoUpdates == [none |-> TRUE]
NoData == [ok |-> FALSE, data |-> NewJobData]
NoFile == [state |-> "absent", data |-> NewJobData]

\* the percent written as it was given
StoredAsGiven(progress) == progress

\* min(100, max(0, progress))
Clamp(progress) ==
    IF progress < 0 THEN 0 ELSE IF progress > 100 THEN 100 ELSE progress

(***************************************************************************)
(* Threads.                                                                *)
(***************************************************************************)
Api == <<"api", 0>>          \* the request handler generate_video_async
Worker == <<"worker", 0>>    \* the executor thread running run_job
Cancellers == {"cancel"} \X (1..MaxCancellers)
Readers == {<<"reader", 1>>}
Threads == {Api, Worker} \cup Cancellers \cup Readers
NoThread == <<"none", 0>>


(***************************************************************************)
(* The field updates the methods of FileJobService hand to                 *)
(* _update_job_file.                                                       *)
(***************************************************************************)
StepAndProgressOnly(job_data, status, current_step, has_progress, progress) ==
    LET fields ==
            (IF current_step # None THEN {"current_step"} ELSE {})
            \cup (IF has_progress THEN {"progress"} ELSE {})
    IN  [f \in fields |->
            CASE f = "current_step" -> current_step
              [] f = "progress" -> Clamp(progress)]

\* update_job_status: `job_data` is what its own _read_job_file returned
UpdateJobStatusUpdates(job_data, status, current_step, has_progress, progress) ==
    LET fields ==
            {"status"}
            \cup (IF status = PROCESSING /\ job_data.ok
                     /\ job_data.data.started_at = None
                  THEN {"started_at"} ELSE {})
            \cup (IF current_step # None THEN {"current_step"} ELSE {})
            \cup (IF has_progress THEN {"progress"} ELSE {})
    IN  [f \in fields |->
            CASE f = "status" -> status
              [] f = "started_at" -> Now
              [] f = "current_step" -> current_step
              [] f = "progress" -> Clamp(progress)]

\* complete_job: duration_seconds is computed when started_at exists
CompleteJobUpdates(job_data) ==
    [status |-> COMPLETED, completed_at |-> Now, progress |-> 100,
     current_step |-> "Completed", result |-> "result",
     duration_seconds |->
        IF job_data.ok /\ job_data.data.started_at # None THEN "D" ELSE None]

FailJobUpdates(error) ==
    [status |-> FAILED, completed_at |-> Now, error |-> error,
     current_step |-> "Failed"]

\* a cancel that also clears the stored configuration
CancelDroppingConfig ==
    [status |-> CANCELLED, completed_at |-> Now, current_step |-> "Cancelled",
     config |-> None]

CancelJobUpdates ==
    [status |-> CANCELLED, completed_at |-> Now, current_step |-> "Cancelled"]

CancelAlways(job_data) == job_data.ok

\* cancel_job's test of the record it read
CancelAllowed(job_data) ==
    job_data.ok /\ job_data.data.status \in {PENDING, PROCESSING}

(***************************************************************************)
(* The pipeline of run_job and _process_video_generation: the calls it     *)
(* makes, in order. cond says when the call is made.                       *)
(***************************************************************************)
Script ==
    << [kind |-> "status",   name |-> "Starting video generation",    progress |-> 0,  cond |-> "always"],
       [kind |-> "progress", name |-> "Analyzing audio files",        progress |-> 10, cond |-> "always"],
       [kind |-> "stage",    name |-> "analyze",                      progress |-> 0,  cond |-> "always"],
       [kind |-> "progress", name |-> "Audio analysis complete",      progress |-> 20, cond |-> "always"],
       [kind |-> "progress", name |-> "Transcribing audio",           progress |-> 30, cond |-> "captions"],
       [kind |-> "stage",    name |-> "transcribe",                   progress |-> 0,  cond |-> "captions"],
       [kind |-> "progress", name |-> "Generating subtitles",         progress |-> 50, cond |-> "transcriptions"],
       [kind |-> "stage",    name |-> "subtitles",                    progress |-> 0,  cond |-> "transcriptions"],
       [kind |-> "progress", name |-> "Preparing video generation",   progress |-> 60, cond |-> "always"],
       [kind |-> "stage",    name |-> "build",                        progress |-> 0,  cond |-> "always"],
       [kind |-> "progress", name |-> "Generating video with FFmpeg", progress |-> 70, cond |-> "always"],
       [kind |-> "stage",    name |-> "execute",                      progress |-> 0,  cond |-> "always"],
       [kind |-> "progress", name |-> "Finalizing video",             progress |-> 95, cond |-> "always"],
       [kind |-> "return",   name |-> "result",                       progress |-> 0,  cond |-> "always"] >>

\* The exceptions a stage raises, by their messages.
RaiseMsgs(stage) ==
    CASE stage = "analyze" ->
            {"Audio duration analysis failed", "No audio files found in configuration"}
      [] stage = "transcribe" -> {}
      [] stage = "subtitles" -> {"Subtitle file creation failed"}
      [] stage = "build" -> {"Command generation failed"}
      [] stage = "execute" ->
            {"FFmpeg execution failed with code", "FFmpeg execution timed out"}

\* The stages a run with captions `cap`, transcriptions `tr` goes through.
StagesOf(cap, tr) ==
    {"analyze", "build", "execute"}
    \cup (IF cap THEN {"transcribe"} ELSE {})
    \cup (IF cap /\ tr THEN {"subtitles"} ELSE {})

CondHolds(cond, cap, tr) ==
    CASE cond = "always" -> TRUE
      [] cond = "captions" -> cap
      [] cond = "transcriptions" -> cap /\ tr

\* The next call of the pipeline after call i.
NextIdx(i, cap, tr) ==
    CHOOSE j \in (i + 1)..Len(Script) :
        /\ CondHolds(Script[j].cond, cap, tr)
        /\ \A k \in (i + 1)..(j - 1) : ~CondHolds(Script[k].cond, cap, tr)

RunJobExceptSwallowed == "cj_read"

\* run_job's handler of an exception of generation_func: fail_job
RunJobExcept == "fj_update"

\* Where the worker stands when it is about to make call i.
PcOfCall(i) ==
    CASE Script[i].kind \in {"status", "progress"} -> "us_read"
      [] Script[i].kind = "stage" -> "stage_begin"
      [] Script[i].kind = "return" -> "cj_read"

(***************************************************************************)
(* The job file and its advisory lock.                                     *)
(***************************************************************************)
\* job_file.exists()
Exists == file.state # "absent"

LockShIgnored(t) == TRUE
LockExIgnored(t) == TRUE

\* fcntl.flock(f, LOCK_SH) returns once no other open file holds LOCK_EX
CanLockSh(t) == lockEx = NoThread

\* fcntl.flock(f, LOCK_EX) returns once no other open file holds any lock
CanLockEx(t) == lockEx = NoThread /\ lockSh \subseteq {t}

\* json.load(f): a file that is empty or half rewritten raises
\* JSONDecodeError, which _read_job_file answers with None
JsonLoad(f) ==
    IF f.state = "ok" THEN [ok |-> TRUE, data |-> f.data] ELSE NoData

StatusOf == file.data.status

otherVars == <<cfgCaptions, transcribed, stagesStarted, stagesOk, raised,
               analyzeVars, transcribeVars, moreVars>>

(***************************************************************************)
(* What each caller does with the value of _read_job_file.                 *)
(***************************************************************************)
AfterRead(t, job_data) ==
    CASE pc[t] = "us_read" ->
            /\ pc' = [pc EXCEPT ![t] = "us_update"]
            /\ upd' = [upd EXCEPT ![t] =
                   UpdateJobStatusUpdates(job_data, PROCESSING, Script[idx].name,
                       Script[idx].kind = "progress", Script[idx].progress)]
            /\ UNCHANGED <<jd, ret, cancelOk, idx>>
      [] pc[t] = "cj_read" ->
            /\ pc' = [pc EXCEPT ![t] = "cj_update"]
            /\ upd' = [upd EXCEPT ![t] = CompleteJobUpdates(job_data)]
            /\ UNCHANGED <<jd, ret, cancelOk, idx>>
      [] pc[t] = "cn_read" ->
            /\ IF CancelAllowed(job_data)
               THEN /\ pc' = [pc EXCEPT ![t] = "cn_update"]
                    /\ upd' = [upd EXCEPT ![t] = CancelJobUpdates]
                    /\ UNCHANGED ret
               ELSE /\ pc' = [pc EXCEPT ![t] = "idle"]
                    /\ ret' = [ret EXCEPT ![t] = "false"]
                    /\ UNCHANGED upd
            /\ UNCHANGED <<jd, cancelOk, idx>>
      [] pc[t] = "get_read" ->
            /\ pc' = [pc EXCEPT ![t] = "idle"]
            /\ ret' = [ret EXCEPT ![t] = IF job_data.ok THEN "record" ELSE "none"]
            /\ UNCHANGED <<upd, jd, cancelOk, idx>>

(***************************************************************************)
(* What each caller does with the value of _update_job_file. The locals    *)
(* `updates` and `job_data` end with the call.                             *)
(***************************************************************************)
AfterUpdate(t, ok) ==
    /\ upd' = [upd EXCEPT ![t] = NoUpdates]
    /\ jd' = [jd EXCEPT ![t] = NoData]
    /\ CASE pc[t] = "us_update" ->
            LET j == NextIdx(idx, cfgCaptions, transcribed)
            IN  /\ idx' = j
                /\ pc' = [pc EXCEPT ![t] = PcOfCall(j)]
                /\ UNCHANGED <<ret, cancelOk>>
         [] pc[t] \in {"cj_update", "fj_update"} ->
            /\ pc' = [pc EXCEPT ![t] = "done"]
            /\ UNCHANGED <<ret, cancelOk, idx>>
         [] pc[t] = "cn_update" ->
            /\ pc' = [pc EXCEPT ![t] = "idle"]
            /\ ret' = [ret EXCEPT ![t] = IF ok THEN "true" ELSE "false"]
            /\ cancelOk' = (cancelOk \/ ok)
            /\ UNCHANGED idx

ReadPcs == {"us_read", "cj_read", "cn_read", "get_read"}
UpdatePcs == {"us_update", "cj_update", "fj_update", "cn_update"}

(***************************************************************************)
(* _read_job_file                                                          *)
(***************************************************************************)
ReadOpen(t) ==
    /\ pc[t] \in ReadPcs /\ phase[t] = "idle"
    /\ IF ~Exists
       THEN /\ AfterRead(t, NoData)
            /\ UNCHANGED phase
       ELSE /\ phase' = [phase EXCEPT ![t] = "r_open"]
            /\ UNCHANGED <<pc, upd, jd, ret, cancelOk, idx>>
    /\ UNCHANGED <<file, lockEx, lockSh, committed, rdExisted, otherVars>>

ReadLock(t) ==
    /\ phase[t] = "r_open"
    /\ CanLockSh(t)
    /\ lockSh' = lockSh \cup {t}
    /\ phase' = [phase EXCEPT ![t] = "r_locked"]
    /\ UNCHANGED <<file, lockEx, pc, upd, jd, ret, cancelOk, idx, committed, rdExisted,
                   otherVars>>

ReadLoad(t) ==
    /\ phase[t] = "r_locked"
    /\ AfterRead(t, JsonLoad(file))
    /\ lockSh' = lockSh \ {t}
    /\ phase' = [phase EXCEPT ![t] = "idle"]
    /\ UNCHANGED <<file, lockEx, committed, rdExisted, otherVars>>

(***************************************************************************)
(* _update_job_file                                                        *)
(***************************************************************************)
UpdateOpen(t) ==
    /\ pc[t] \in UpdatePcs /\ phase[t] = "idle"
    /\ IF ~Exists
       THEN /\ AfterUpdate(t, FALSE)
            /\ UNCHANGED phase
       ELSE /\ phase' = [phase EXCEPT ![t] = "u_open"]
            /\ UNCHANGED <<pc, upd, jd, ret, cancelOk, idx>>
    /\ UNCHANGED <<file, lockEx, lockSh, committed, rdExisted, otherVars>>

\* flock(LOCK_EX); job_data = json.load(f); job_data.update(updates)
UpdateLock(t) ==
    /\ phase[t] = "u_open"
    /\ CanLockEx(t)
    /\ IF file.state = "ok"
       THEN /\ lockEx' = t
            /\ jd' = [jd EXCEPT ![t] =
                   [ok |-> TRUE, data |-> Merge(file.data, upd[t])]]
            /\ phase' = [phase EXCEPT ![t] = "u_locked"]
            /\ UNCHANGED <<pc, upd, ret, cancelOk, idx>>
       ELSE \* JSONDecodeError: the file is closed, False is returned
            /\ AfterUpdate(t, FALSE)
            /\ phase' = [phase EXCEPT ![t] = "idle"]
            /\ UNCHANGED lockEx
    /\ UNCHANGED <<file, lockSh, committed, rdExisted, otherVars>>

\* f.seek(0); json.dump(job_data, f): the file holds the new text over the old
UpdateDump(t) ==
    /\ phase[t] = "u_locked"
    /\ file' = [file EXCEPT !.state = "partial"]
    /\ phase' = [phase EXCEPT ![t] = "u_dumped"]
    /\ UNCHANGED <<lockEx, lockSh, pc, upd, jd, ret, cancelOk, idx, committed, rdExisted,
                   otherVars>>

\* f.truncate(); the with block closes the file, which releases the lock
UpdateTruncate(t) ==
    /\ phase[t] = "u_dumped"
    /\ file' = [state |-> "ok", data |-> jd[t].data]
    /\ lockEx' = NoThread
    /\ committed' = Merge(committed, upd[t])
    /\ phase' = [phase EXCEPT ![t] = "idle"]
    /\ AfterUpdate(t, TRUE)
    /\ UNCHANGED <<lockSh, rdExisted, otherVars>>

(***************************************************************************)
(* create_job and _write_job_file, submit_job                              *)
(***************************************************************************)
CreateJob ==
    /\ pc[Api] = "start"
    /\ pc' = [pc EXCEPT ![Api] = "create_write"]
    /\ upd' = [upd EXCEPT ![Api] = NewJobData]
    /\ UNCHANGED <<file, lockEx, lockSh, phase, jd, ret, cancelOk, idx, committed,
                   rdExisted, otherVars>>

\* open(job_file, 'w') creates the file, empty
WriteOpen(t) ==
    /\ pc[t] = "create_write" /\ phase[t] = "idle"
    /\ file' = [file EXCEPT !.state = "empty"]
    /\ phase' = [phase EXCEPT ![t] = "w_open"]
    /\ UNCHANGED <<lockEx, lockSh, pc, upd, jd, ret, cancelOk, idx, committed, rdExisted,
                   otherVars>>

WriteLock(t) ==
    /\ phase[t] = "w_open"
    /\ CanLockEx(t)
    /\ lockEx' = t
    /\ phase' = [phase EXCEPT ![t] = "w_locked"]
    /\ UNCHANGED <<file, lockSh, pc, upd, jd, ret, cancelOk, idx, committed, rdExisted,
                   otherVars>>

\* json.dump(job_data, f); the file is closed; create_job returns job_id
WriteDump(t) ==
    /\ phase[t] = "w_locked"
    /\ file' = [state |-> "ok", data |-> upd[t]]
    /\ committed' = upd[t]
    /\ lockEx' = NoThread
    /\ phase' = [phase EXCEPT ![t] = "idle"]
    /\ pc' = [pc EXCEPT ![t] = "submit"]
    /\ UNCHANGED <<lockSh, upd, jd, ret, cancelOk, idx, rdExisted, otherVars>>

\* executor.submit(run_job)
SubmitJob ==
    /\ pc[Api] = "submit"
    /\ pc' = [pc EXCEPT ![Api] = "done", ![Worker] = "queued"]
    /\ UNCHANGED <<file, lockEx, lockSh, phase, upd, jd, ret, cancelOk, idx, committed,
                   rdExisted, otherVars>>

Created == pc[Api] \in {"submit", "done"}

(***************************************************************************)
(* run_job and the pipeline                                                *)
(***************************************************************************)
\* a worker of the executor takes the task: update_job_status(PROCESSING, ...)
RunJob ==
    /\ pc[Worker] = "queued"
    /\ idx' = 1
    /\ pc' = [pc EXCEPT ![Worker] = PcOfCall(1)]
    /\ UNCHANGED <<file, lockEx, lockSh, phase, upd, jd, ret, cancelOk, committed,
                   rdExisted, otherVars>>

StageBegin ==
    /\ pc[Worker] = "stage_begin"
    /\ pc' = [pc EXCEPT ![Worker] = "stage_run"]
    /\ stagesStarted' = stagesStarted \cup {Script[idx].name}
    /\ UNCHANGED <<file, lockEx, lockSh, phase, upd, jd, ret, cancelOk, idx, committed,
                   rdExisted, cfgCaptions, transcribed, stagesOk, raised,
                   analyzeVars, transcribeVars, moreVars>>

StageReturn ==
    /\ pc[Worker] = "stage_run"
    /\ stagesOk' = stagesOk \cup {Script[idx].name}
    /\ \E tr \in BOOLEAN :
          /\ (Script[idx].name # "transcribe" => tr = transcribed)
          /\ transcribed' = tr
          /\ LET j == NextIdx(idx, cfgCaptions, tr)
             IN  /\ idx' = j
                 /\ pc' = [pc EXCEPT ![Worker] = PcOfCall(j)]
    /\ UNCHANGED <<file, lockEx, lockSh, phase, upd, jd, ret, cancelOk, committed,
                   rdExisted, cfgCaptions, stagesStarted, raised, analyzeVars,
                   transcribeVars, moreVars>>

\* the stage raises: run_job's except clause calls fail_job(job_id, str(e))
StageRaise ==
    /\ pc[Worker] = "stage_run"
    /\ \E msg \in RaiseMsgs(Script[idx].name) :
          /\ raised' = msg
          /\ upd' = [upd EXCEPT ![Worker] = FailJobUpdates(msg)]
    /\ pc' = [pc EXCEPT ![Worker] = RunJobExcept]
    /\ UNCHANGED <<file, lockEx, lockSh, phase, jd, ret, cancelOk, idx, committed,
                   rdExisted, cfgCaptions, transcribed, stagesStarted, stagesOk,
                   analyzeVars, transcribeVars, moreVars>>

(***************************************************************************)
(* cancel_job and get_job_status, called by other threads at any time      *)
(***************************************************************************)
CancelJob(c) ==
    /\ pc[c] = "idle"
    /\ pc' = [pc EXCEPT ![c] = "cn_read"]
    /\ ret' = [ret EXCEPT ![c] = "none"]
    /\ UNCHANGED <<file, lockEx, lockSh, phase, upd, jd, cancelOk, idx, committed,
                   rdExisted, otherVars>>

GetJobStatus(r) ==
    /\ pc[r] = "idle"
    /\ pc' = [pc EXCEPT ![r] = "get_read"]
    /\ ret' = [ret EXCEPT ![r] = "none"]
    /\ rdExisted' = [rdExisted EXCEPT ![r] = Created]
    /\ UNCHANGED <<file, lockEx, lockSh, phase, upd, jd, cancelOk, idx, committed,
                   otherVars>>

NotReturned == [ok |-> FALSE, results |-> <<>>, total |-> 0]

(***************************************************************************)
(* The job specification.                                                  *)
(***************************************************************************)
AnalyzeIdle ==
    /\ aConfig = <<>> /\ aPc = "off" /\ aTasks = <<>> /\ aOutcome = <<>>
    /\ aCollected = {} /\ aOrder = <<>> /\ aResults = <<>> /\ aTotal = 0
    /\ aReturned = NotReturned

TranscribeIdle ==
    /\ tConfig = [subtitle_element |-> FALSE, enable_subtitles |-> FALSE]
    /\ tAudioInfo = <<>> /\ tTimings = <<>> /\ tPc = "off" /\ tTasks = <<>>
    /\ tOutcome = <<>> /\ tCollected = {} /\ tResults = <<>>
    /\ tReturned = [ok |-> FALSE, results |-> <<>>]

TimingsIdle ==
    /\ stAudioResults = <<>> /\ stPc = "off" /\ stTimings = <<>>

CaptionsIdle ==
    /\ cpStyle = "progressive" /\ cpTranscriptions = <<>> /\ cpTimings = <<>>
    /\ cpPc = "off" /\ cpEvents = <<>> /\ cpFile = FALSE

PoolIdle ==
    /\ plStatus = <<>> /\ plQueue = <<>> /\ plRunning = {} /\ plStarted = {}

HangIdle ==
    /\ tHung = {}

PipelineIdle ==
    /\ pvRequest = <<>> /\ pvPc = "idle" /\ pvHttp = 0 /\ pvStatus = "none"
    /\ pvError = <<>> /\ pvAudioInfo = <<>> /\ pvProbes = 0
    /\ pvTranscriptions = 0 /\ pvCaptions = FALSE /\ pvRender = FALSE
    /\ pvAttempts = 0 /\ pvProcess = <<>> /\ pvFailure = <<>>

BuildIdle ==
    /\ bdConfig = <<>> /\ bdAudioInfo = <<>> /\ bdSubtitle = ""
    /\ bdPc = "idle" /\ bdRaised = <<>> /\ bdCommand = <<>> /\ bdHistory = <<>>

SweepIdle ==
    /\ swRecord = <<>> /\ swClock = 0 /\ swWorker = "idle" /\ swPc = "idle"
    /\ swCutoff = 0 /\ swSeen = <<>> /\ swDeleted = <<>>

ListIdle ==
    /\ lsJobs = <<>> /\ lsFilter = "" /\ lsLimit = 0 /\ lsPc = "idle" /\ lsResult = <<>>

ProgressIdle ==
    /\ pgJob = <<>> /\ pgLast = [call |-> "none", percent |-> 0] /\ pgCalls = 0

ColorIdle ==
    /\ clColor = <<>> /\ clPc = "idle" /\ clResult = <<>>

MoreIdle == TimingsIdle /\ CaptionsIdle /\ PoolIdle /\ HangIdle /\ PipelineIdle /\ BuildIdle /\ SweepIdle /\ ListIdle /\ ProgressIdle /\ ColorIdle

JobIdle ==
    /\ file = NoFile
    /\ lockEx = NoThread
    /\ lockSh = {}
    /\ pc = [t \in Threads |->
               CASE t = Api -> "start" [] t = Worker -> "not_submitted"
                 [] OTHER -> "idle"]
    /\ phase = [t \in Threads |-> "idle"]
    /\ upd = [t \in Threads |-> NoUpdates]
    /\ jd = [t \in Threads |-> NoData]
    /\ ret = [t \in Cancellers \cup Readers |-> "none"]
    /\ cancelOk = FALSE
    /\ idx = 0
    /\ transcribed = FALSE
    /\ stagesStarted = {}
    /\ stagesOk = {}
    /\ raised = None
    /\ committed = NewJobData
    /\ rdExisted = [r \in Readers |-> FALSE]

Init ==
    /\ JobIdle
    /\ cfgCaptions \in BOOLEAN
    /\ AnalyzeIdle
    /\ TranscribeIdle
    /\ MoreIdle

Next ==
    \/ CreateJob
    \/ WriteOpen(Api)
    \/ WriteLock(Api)
    \/ WriteDump(Api)
    \/ SubmitJob
    \/ RunJob
    \/ StageBegin
    \/ StageReturn
    \/ StageRaise
    \/ \E c \in Cancellers : CancelJob(c)
    \/ \E r \in Readers : GetJobStatus(r)
    \/ \E t \in Threads : ReadOpen(t)
    \/ \E t \in Threads : ReadLock(t)
    \/ \E t \in Threads : ReadLoad(t)
    \/ \E t \in Threads : UpdateOpen(t)
    \/ \E t \in Threads : UpdateLock(t)
    \/ \E t \in Threads : UpdateDump(t)
    \/ \E t \in Threads : UpdateTruncate(t)

Spec == Init /\ [][Next]_vars

(***************************************************************************)
(* Properties of the job record.                                           *)
(***************************************************************************)

\* C1: terminal states are sinks: once the status of the job is Completed,
\* Failed or Cancelled, no later step changes it.
TerminalStatesAreSinks ==
    [][(Exists /\ StatusOf \in Terminal) => StatusOf' = StatusOf]_vars

\* C2: once a cancel_job call has returned True, the pipeline starts no
\* further stage.
NoStageStartsAfterCancel ==
    [][cancelOk => stagesStarted' = stagesStarted]_vars

\* C3: cancel_job is an atomic check-and-set: when its write of Cancelled
\* reaches the record, the status it replaces is Pending or Processing.
CancelIsCheckAndSet ==
    [][\A c \in Cancellers :
          (pc[c] = "cn_update" /\ phase[c] = "u_dumped" /\ phase'[c] = "idle")
              => StatusOf \in {PENDING, PROCESSING}]_vars

\* C4: concurrent writers serialize: whenever the file holds a record, it is
\* the record that results from applying the updates of the finished
\* _update_job_file calls one after another, and a half rewritten file is
\* always under its writer's exclusive lock.
WritersSerialize ==
    /\ file.state = "ok" => file.data = committed
    /\ file.state = "partial" => lockEx # NoThread

\* a cancel_job caller waits for the lock while the worker rewrites the file
WritersSerializeWitness ==
    \E c \in Cancellers :
        /\ phase[c] = "u_open"
        /\ lockEx = Worker /\ file.state = "partial"
        /\ committed.progress = 20

\* C5: a get_job_status that returns while the job exists returns a record,
\* never None, and the record it returns is the whole record as last
\* committed: it never reads a half written file.
ReadersSeeWholeRecords ==
    [][\A r \in Readers :
          (pc[r] = "get_read" /\ pc'[r] = "idle")
              => /\ rdExisted[r] => ret'[r] = "record"
                 /\ ret'[r] = "record"
                        => (file.state = "ok" /\ JsonLoad(file).data = committed)]_vars

\* a reader has opened the file of an existing job while an update has it
\* half rewritten
ReadersSeeWholeRecordsWitness ==
    \E r \in Readers :
        phase[r] = "r_open" /\ rdExisted[r] /\ file.state = "partial"

\* C6: the job is Completed only if every stage of its pipeline returned and
\* none raised; once a stage has raised and run_job has ended, the record
\* holds the error message and the status is Failed (Cancelled only where a
\* cancel_job call has returned True).
NoPartialSuccess ==
    /\ (Exists /\ StatusOf = COMPLETED)
          => (raised = None /\ StagesOf(cfgCaptions, transcribed) \subseteq stagesOk)
    /\ (pc[Worker] = "done" /\ raised # None)
          => /\ file.data.error = raised
             /\ file.data.error \notin {None, ""}
             /\ StatusOf = FAILED \/ (StatusOf = CANCELLED /\ cancelOk)

\* the render process timed out and the job ended Failed
NoPartialSuccessWitness ==
    /\ pc[Worker] = "done"
    /\ raised = "FFmpeg execution timed out"
    /\ StatusOf = FAILED
    /\ {"analyze", "build"} \subseteq stagesOk

\* C31: the identity and the input of a job never change: whenever the job
\* file holds a record, its job_id, its created_at and its config are those
\* create_job wrote, whatever update_job_status, update_job_progress,
\* complete_job, fail_job and cancel_job have written since.
JobInputImmutable ==
    file.state = "ok"
        => /\ file.data.job_id = NewJobData.job_id
           /\ file.data.created_at = NewJobData.created_at
           /\ file.data.config = NewJobData.config

\* a cancel_job returned True and the pipeline went on to complete the job
JobInputImmutableWitness ==
    /\ file.state = "ok" /\ StatusOf = COMPLETED /\ cancelOk
    /\ file.data.progress = 100
    /\ file.data.config = "config"

\* C37: whenever the job file holds a record, its result is set only if the
\* status is Completed, its error only if the status is Failed, and its
\* completed_at exactly when the status is Completed, Failed or Cancelled.
RecordConsistent ==
    file.state = "ok"
        => /\ file.data.result # None => StatusOf = COMPLETED
           /\ file.data.error # None => StatusOf = FAILED
           /\ file.data.completed_at # None <=> StatusOf \in Terminal

(***************************************************************************)
(* analyze_audio_durations: the concurrent duration probes.                *)
(* Durations are whole seconds.                                            *)
(***************************************************************************)
MaxScenes == 2
MaxAudio == 3
AudioAnalysisWorkers == 2
DefaultDuration == 10
FallbackDuration == 10

\* the src of the p-th audio element of a configuration, when it is not blank
Locators ==
    << "https://cdn.test/a.mp3",
       "https://drive.google.com/file/d/1AbCdEfGhIjKlMnOpQrStUvWx/view",
       "https://cdn.test/c.mp3",
       "https://cdn.test/d.mp3",
       "https://cdn.test/e.mp3" >>
BlankLocators == <<"", " ">>

\* what ffprobe reports for a locator when it succeeds
MeasuredDuration(url) ==
    CASE url = "https://cdn.test/a.mp3" -> 3
      [] url = "https://drive.google.com/uc?export=download&id=1AbCdEfGhIjKlMnOpQrStUvWx" -> 5
      [] url = "https://cdn.test/c.mp3" -> 10
      [] url = "https://cdn.test/d.mp3" -> 7
      [] OTHER -> 2

ProbeOutcomes == {"ok", "no_duration", "timeout", "error"}

ProcessGdriveUrl(url) ==
    IF url = "https://drive.google.com/file/d/1AbCdEfGhIjKlMnOpQrStUvWx/view"
    THEN "https://drive.google.com/uc?export=download&id=1AbCdEfGhIjKlMnOpQrStUvWx"
    ELSE url

Strip(url) == IF url = " " THEN "" ELSE url

RECURSIVE SumTo(_, _)
SumTo(lens, n) == IF n = 0 THEN 0 ELSE lens[n] + SumTo(lens, n - 1)

SceneShapes ==
    UNION {{lens \in [1..n -> 0..MaxAudio] : SumTo(lens, n) <= MaxAudio}
              : n \in 0..MaxScenes}

ConfigOf(lens, blanks) ==
    [i \in DOMAIN lens |->
        [j \in 1..lens[i] |->
            LET p == SumTo(lens, i - 1) + j
            IN  IF p \in blanks THEN BlankLocators[1 + (p % 2)] ELSE Locators[p]]]

Configs ==
    UNION {{ConfigOf(lens, blanks) : blanks \in SUBSET (1..SumTo(lens, Len(lens)))}
              : lens \in SceneShapes}

RECURSIVE SceneAudioTasks(_, _, _)
SceneAudioTasks(srcs, i, j) ==
    IF j > Len(srcs) THEN <<>>
    ELSE LET audio_url == ProcessGdriveUrl(srcs[j])
         IN  (IF audio_url # "" /\ Strip(audio_url) # ""
              THEN <<[scene_index |-> i - 1, url |-> audio_url]>>
              ELSE <<>>) \o SceneAudioTasks(srcs, i, j + 1)

RECURSIVE AudioTasksFrom(_, _)
AudioTasksFrom(scenes, i) ==
    IF i > Len(scenes) THEN <<>>
    ELSE SceneAudioTasks(scenes[i], i, 1) \o AudioTasksFrom(scenes, i + 1)

AudioTasks(scenes) == AudioTasksFrom(scenes, 1)

\* the futures a worker of the pool is running: the pool starts the tasks in
\* submission order, at most AudioAnalysisWorkers at a time
ProbesRunning ==
    {k \in DOMAIN aOutcome :
        /\ aOutcome[k] = "pending"
        /\ Cardinality({j \in 1..(k - 1) : aOutcome[j] = "pending"})
              < AudioAnalysisWorkers}

ExceptResultZero(task, outcome) ==
    [scene_index |-> task.scene_index, url |-> task.url,
     duration |-> IF outcome = "ok" THEN MeasuredDuration(task.url)
                  ELSE IF outcome = "no_duration" THEN DefaultDuration ELSE 0]

\* the result the collection loop appends for a finished future
CollectedResult(task, outcome) ==
    [scene_index |-> task.scene_index, url |-> task.url,
     duration |-> CASE outcome = "ok" -> MeasuredDuration(task.url)
                    [] outcome = "no_duration" -> DefaultDuration
                    [] OTHER -> FallbackDuration]

RECURSIVE InsertBySceneIndex(_, _)
InsertBySceneIndex(sorted, r) ==
    IF sorted = <<>> THEN <<r>>
    ELSE LET last == sorted[Len(sorted)]
         IN  IF last.scene_index <= r.scene_index
             THEN Append(sorted, r)
             ELSE Append(InsertBySceneIndex(SubSeq(sorted, 1, Len(sorted) - 1), r),
                         last)

RECURSIVE StableSort(_)
StableSort(rs) ==
    IF rs = <<>> THEN <<>>
    ELSE InsertBySceneIndex(StableSort(SubSeq(rs, 1, Len(rs) - 1)), rs[Len(rs)])

CompletionOrder(rs) == rs

SortBySceneIndex(rs) == StableSort(rs)

AnalyzeCollectTasks ==
    /\ aPc = "start"
    /\ LET audio_tasks == AudioTasks(aConfig)
       IN  /\ aTasks' = audio_tasks
           /\ IF audio_tasks = <<>>
              THEN /\ aReturned' = [ok |-> TRUE, results |-> <<>>, total |-> 0]
                   /\ aPc' = "returned"
                   /\ aOutcome' = aOutcome
              ELSE /\ aOutcome' = [k \in 1..Len(audio_tasks) |-> "pending"]
                   /\ aPc' = "pool"
                   /\ aReturned' = aReturned
    /\ UNCHANGED <<aConfig, aCollected, aOrder, aResults, aTotal>>
    /\ UNCHANGED <<jobVars, transcribeVars, moreVars>>

GetDurationWithInfo(k, outcome) ==
    /\ aPc = "pool"
    /\ k \in ProbesRunning
    /\ aOutcome' = [aOutcome EXCEPT ![k] = outcome]
    /\ UNCHANGED <<aConfig, aPc, aTasks, aCollected, aOrder, aResults, aTotal,
                   aReturned>>
    /\ UNCHANGED <<jobVars, transcribeVars, moreVars>>

AnalyzeAsCompleted(k) ==
    /\ aPc = "pool"
    /\ k \in DOMAIN aOutcome
    /\ aOutcome[k] # "pending"
    /\ k \notin aCollected
    /\ LET result == CollectedResult(aTasks[k], aOutcome[k])
       IN  /\ aResults' = Append(aResults, result)
           /\ aTotal' = aTotal + result.duration
    /\ aCollected' = aCollected \cup {k}
    /\ aOrder' = Append(aOrder, k)
    /\ UNCHANGED <<aConfig, aPc, aTasks, aOutcome, aReturned>>
    /\ UNCHANGED <<jobVars, transcribeVars, moreVars>>

AnalyzeReturn ==
    /\ aPc = "pool"
    /\ aCollected = DOMAIN aOutcome
    /\ aResults' = SortBySceneIndex(aResults)
    /\ aReturned' = [ok |-> TRUE, results |-> aResults', total |-> aTotal]
    /\ aPc' = "returned"
    /\ UNCHANGED <<aConfig, aTasks, aOutcome, aCollected, aOrder, aTotal>>
    /\ UNCHANGED <<jobVars, transcribeVars, moreVars>>

InitAnalyze ==
    /\ JobIdle /\ cfgCaptions = FALSE
    /\ TranscribeIdle
    /\ MoreIdle
    /\ aConfig \in Configs
    /\ aPc = "start" /\ aTasks = <<>> /\ aOutcome = <<>>
    /\ aCollected = {} /\ aOrder = <<>> /\ aResults = <<>> /\ aTotal = 0
    /\ aReturned = NotReturned

NextAnalyze ==
    \/ AnalyzeCollectTasks
    \/ \E k \in 1..Len(aTasks), outcome \in ProbeOutcomes :
           GetDurationWithInfo(k, outcome)
    \/ \E k \in 1..Len(aTasks) : AnalyzeAsCompleted(k)
    \/ AnalyzeReturn

SpecAnalyze == InitAnalyze /\ [][NextAnalyze]_vars

\* the audio elements of the configuration that name a source
AudioSources ==
    {<<i, j>> \in (1..Len(aConfig)) \X (1..MaxAudio + 1) :
        j <= Len(aConfig[i]) /\ aConfig[i][j] \notin {"", " "}}

RECURSIVE SumDurations(_)
SumDurations(rs) ==
    IF rs = <<>> THEN 0
    ELSE rs[Len(rs)].duration + SumDurations(SubSeq(rs, 1, Len(rs) - 1))

\* C9: analyze returns, without failing, exactly one probe per audio source of
\* the configuration whatever the probes did; a probe that failed or timed
\* out has duration 10, a successful one its measured duration, and
\* total_duration is the sum of the returned durations.
ProbeFailuresAbsorbed ==
    aPc = "returned" =>
        /\ aReturned.ok
        /\ Len(aReturned.results) = Cardinality(AudioSources)
        /\ \A s \in AudioSources :
              Cardinality({n \in 1..Len(aReturned.results) :
                  /\ aReturned.results[n].scene_index = s[1] - 1
                  /\ aReturned.results[n].url = ProcessGdriveUrl(aConfig[s[1]][s[2]])})
                = 1
        /\ \A n \in 1..Len(aReturned.results) : \A k \in 1..Len(aTasks) :
              aTasks[k].url = aReturned.results[n].url =>
                  aReturned.results[n].duration =
                      IF aOutcome[k] = "ok"
                      THEN MeasuredDuration(aTasks[k].url) ELSE 10
        /\ aReturned.total = SumDurations(aReturned.results)

\* analyze has returned three probes: one timed out, one failed, one measured
ProbeFailuresAbsorbedWitness ==
    /\ aPc = "returned"
    /\ Len(aReturned.results) = 3
    /\ \E k1, k2, k3 \in 1..Len(aTasks) :
          /\ aOutcome[k1] = "timeout" /\ aOutcome[k2] = "error"
          /\ aOutcome[k3] = "ok" /\ MeasuredDuration(aTasks[k3].url) # 10
    /\ aReturned.total > 20

\* C10: the probe list analyze returns is in non-decreasing scene_index order,
\* in whatever order the probes completed.
ProbesSortedByScene ==
    aPc = "returned" =>
        \A m, n \in 1..Len(aReturned.results) :
            m < n => aReturned.results[m].scene_index
                        <= aReturned.results[n].scene_index

\* analyze has returned after a probe of a later scene was collected before a
\* probe of an earlier scene
ProbesSortedBySceneWitness ==
    /\ aPc = "returned"
    /\ \E m, n \in 1..Len(aOrder) :
          m < n /\ aTasks[aOrder[m]].scene_index > aTasks[aOrder[n]].scene_index

\* C35: the probe list analyze returns does not depend on the order in which
\* the probes completed: it lists the audio sources in the order of the
\* configuration, which is the list returned when the probes complete in
\* the order they were submitted, also for several sources of one scene.
AnalysisOrderIndependent ==
    aPc = "returned"
        => [n \in 1..Len(aReturned.results) |-> aReturned.results[n].url]
              = [k \in 1..Len(aTasks) |-> aTasks[k].url]

(***************************************************************************)
(* transcribe_scene_audios: the concurrent scene transcriptions.           *)
(***************************************************************************)
MaxTimings == 3
TranscriptionWorkers == 2

\* the locators of the audio sources a scene may have, by scene
SceneLocators ==
    << <<"s0a.mp3", "s0b.mp3">>, <<"s1a.mp3", "s1b.mp3">>,
       <<"s2a.mp3", "s2b.mp3">>, <<"s3a.mp3", "s3b.mp3">>,
       <<"s4a.mp3", "s4b.mp3">> >>

SceneIndexes == 0..(MaxTimings - 1)

RECURSIVE AudioInfoFrom(_, _)
AudioInfoFrom(counts, i) ==
    IF i \notin DOMAIN counts THEN <<>>
    ELSE [j \in 1..counts[i] |-> [scene_index |-> i, url |-> SceneLocators[i + 1][j]]]
            \o AudioInfoFrom(counts, i + 1)

\* audio_info as analyze_audio_durations returns it: sorted by scene_index
AudioInfos ==
    {AudioInfoFrom(counts, 0) :
        counts \in [SceneIndexes -> 0..Len(SceneLocators[1])]}

RECURSIVE Ascending(_)
Ascending(S) ==
    IF S = {} THEN <<>>
    ELSE LET m == CHOOSE x \in S : \A y \in S : x <= y
         IN  <<[scene_index |-> m]>> \o Ascending(S \ {m})

\* scene_timings as calculate_scene_timings returns them: one per scene,
\* ascending
TimingLists == {Ascending(S) : S \in SUBSET SceneIndexes}

\* the text whisper hears in the audio at a locator
Transcript(url) == <<"text of", url>>
NoTranscript == <<>>

TranscribeOutcomes == {"ok", "failed", "raised"}

RECURSIVE SceneAudioMap(_, _)
SceneAudioMap(audio_info, scene_idx) ==
    IF audio_info = <<>> THEN <<>>
    ELSE (IF Head(audio_info).scene_index = scene_idx
          THEN <<Head(audio_info).url>> ELSE <<>>)
            \o SceneAudioMap(Tail(audio_info), scene_idx)

RECURSIVE TranscriptionTasks(_, _)
TranscriptionTasks(audio_info, scene_timings) ==
    IF scene_timings = <<>> THEN <<>>
    ELSE LET scene_idx == Head(scene_timings).scene_index
             urls == SceneAudioMap(audio_info, scene_idx)
         IN  (IF urls # <<>>
              THEN <<[scene_index |-> scene_idx, audio_url |-> urls[1]]>>
              ELSE <<>>) \o TranscriptionTasks(audio_info, Tail(scene_timings))

\* the futures a worker of the pool is running
TranscriptionsRunning ==
    {k \in DOMAIN tOutcome :
        /\ tOutcome[k] = "pending"
        /\ Cardinality({j \in 1..(k - 1) : tOutcome[j] = "pending"})
              < TranscriptionWorkers}

\* the result the collection loop stores for a finished future
FutureResult(task, outcome) ==
    CASE outcome = "ok" ->
            [scene_index |-> task.scene_index,
             transcription |-> Transcript(task.audio_url),
             success |-> TRUE, error |-> None]
      [] outcome = "failed" ->
            [scene_index |-> task.scene_index, transcription |-> NoTranscript,
             success |-> FALSE,
             error |-> "URL transcription with words failed: download error"]
      [] OTHER ->
            [scene_index |-> task.scene_index, transcription |-> NoTranscript,
             success |-> FALSE,
             error |-> "1 validation error for TranscriptionResult"]

HasKey(results, scene_idx) ==
    \E n \in 1..Len(results) : results[n].scene_index = scene_idx

Lookup(results, scene_idx) ==
    results[CHOOSE n \in 1..Len(results) : results[n].scene_index = scene_idx]

StoreDropEarlier(results, result) ==
    IF result.success THEN Append(results, result) ELSE <<result>>

\* transcription_results[scene_idx] = result
Store(results, result) ==
    IF HasKey(results, result.scene_index)
    THEN [n \in 1..Len(results) |->
             IF results[n].scene_index = result.scene_index
             THEN result ELSE results[n]]
    ELSE Append(results, result)

InInsertionOrder(scene_timings, results) == results

RECURSIVE ReconstructResults(_, _)
ReconstructResults(scene_timings, results) ==
    IF scene_timings = <<>> THEN <<>>
    ELSE LET scene_idx == Head(scene_timings).scene_index
         IN  <<IF HasKey(results, scene_idx)
               THEN Lookup(results, scene_idx)
               ELSE [scene_index |-> scene_idx, transcription |-> NoTranscript,
                     success |-> FALSE, error |-> "No audio found for scene"]>>
                \o ReconstructResults(Tail(scene_timings), results)

TranscribeStart ==
    /\ tPc = "start"
    /\ LET tasks == TranscriptionTasks(tAudioInfo, tTimings)
       IN  IF \/ ~tConfig.subtitle_element
              \/ ~tConfig.enable_subtitles
              \/ tasks = <<>>
           THEN /\ tReturned' = [ok |-> TRUE, results |-> <<>>]
                /\ tPc' = "returned"
                /\ UNCHANGED <<tTasks, tOutcome>>
           ELSE /\ tTasks' = tasks
                /\ tOutcome' = [k \in 1..Len(tasks) |-> "pending"]
                /\ tPc' = "pool"
                /\ tReturned' = tReturned
    /\ UNCHANGED <<tConfig, tAudioInfo, tTimings, tCollected, tResults>>
    /\ UNCHANGED <<jobVars, analyzeVars, moreVars>>

TranscribeSceneTask(k, outcome) ==
    /\ tPc = "pool"
    /\ k \in TranscriptionsRunning
    /\ tOutcome' = [tOutcome EXCEPT ![k] = outcome]
    /\ UNCHANGED <<tConfig, tAudioInfo, tTimings, tPc, tTasks, tCollected,
                   tResults, tReturned>>
    /\ UNCHANGED <<jobVars, analyzeVars, moreVars>>

TranscribeAsCompleted(k) ==
    /\ tPc = "pool"
    /\ k \in DOMAIN tOutcome
    /\ tOutcome[k] # "pending"
    /\ k \notin tCollected
    /\ tResults' = Store(tResults, FutureResult(tTasks[k], tOutcome[k]))
    /\ tCollected' = tCollected \cup {k}
    /\ UNCHANGED <<tConfig, tAudioInfo, tTimings, tPc, tTasks, tOutcome, tReturned>>
    /\ UNCHANGED <<jobVars, analyzeVars, moreVars>>

TranscribeReturn ==
    /\ tPc = "pool"
    /\ tCollected = DOMAIN tOutcome
    /\ tReturned' = [ok |-> TRUE,
                     results |-> ReconstructResults(tTimings, tResults)]
    /\ tPc' = "returned"
    /\ UNCHANGED <<tConfig, tAudioInfo, tTimings, tTasks, tOutcome, tCollected,
                   tResults>>
    /\ UNCHANGED <<jobVars, analyzeVars, moreVars>>

InitTranscribe ==
    /\ JobIdle /\ cfgCaptions = FALSE
    /\ AnalyzeIdle
    /\ MoreIdle
    /\ tConfig \in [subtitle_element : BOOLEAN, enable_subtitles : BOOLEAN]
    /\ tAudioInfo \in AudioInfos
    /\ tTimings \in TimingLists
    /\ tPc = "start" /\ tTasks = <<>> /\ tOutcome = <<>>
    /\ tCollected = {} /\ tResults = <<>>
    /\ tReturned = [ok |-> FALSE, results |-> <<>>]

NextTranscribe ==
    \/ TranscribeStart
    \/ \E k \in 1..Len(tTasks), outcome \in TranscribeOutcomes :
           TranscribeSceneTask(k, outcome)
    \/ \E k \in 1..Len(tTasks) : TranscribeAsCompleted(k)
    \/ TranscribeReturn

SpecTranscribe == InitTranscribe /\ [][NextTranscribe]_vars

CaptionsEnabled == tConfig.subtitle_element /\ tConfig.enable_subtitles

\* the scenes audio_info has a source for
ScenesWithAudio == {tAudioInfo[n].scene_index : n \in 1..Len(tAudioInfo)}

\* C7: with captions enabled and a scene with audio, transcribe returns one
\* result per entry of scene_timings, in the order of scene_timings, which is
\* ascending by scene index without repetition, whatever the tasks did and
\* in whatever order they completed; a scene without a task result gets a
\* failed entry with an error text.
TranscriptionReassembly ==
    (/\ tPc = "returned" /\ CaptionsEnabled
     /\ \E n \in 1..Len(tTimings) : tTimings[n].scene_index \in ScenesWithAudio)
        => /\ Len(tReturned.results) = Len(tTimings)
           /\ \A n \in 1..Len(tTimings) :
                 /\ tReturned.results[n].scene_index = tTimings[n].scene_index
                 /\ tTimings[n].scene_index \notin ScenesWithAudio
                       => /\ ~tReturned.results[n].success
                          /\ tReturned.results[n].error \notin {None, ""}
           /\ \A m, n \in 1..Len(tReturned.results) :
                 m < n => tReturned.results[m].scene_index
                             < tReturned.results[n].scene_index

\* transcribe has returned three results, one of them for a scene without
\* audio, after the task of the later scene was collected first
TranscriptionReassemblyWitness ==
    /\ tPc = "returned"
    /\ Len(tReturned.results) = 3
    /\ \E n \in 1..Len(tTimings) : tTimings[n].scene_index \notin ScenesWithAudio
    /\ Len(tResults) = 2
    /\ tResults[1].scene_index > tResults[2].scene_index

\* C8: transcribe does not raise, and the result of every scene that had a
\* task is decided by that task alone: a failed task gives success=false with
\* a non-empty error, a successful one gives the text of the scene's first
\* audio source, whatever the tasks of the other scenes did.
TranscriptionFailureIsolation ==
    (tPc = "returned" /\ tTasks # <<>>)
        => /\ tReturned.ok
           /\ \A k \in 1..Len(tTasks) :
                 \E n \in 1..Len(tReturned.results) :
                     LET r == tReturned.results[n]
                     IN  /\ r.scene_index = tTasks[k].scene_index
                         /\ IF tOutcome[k] = "ok"
                            THEN /\ r.success /\ r.error = None
                                 /\ r.transcription =
                                      <<"text of", SceneLocators[r.scene_index + 1][1]>>
                            ELSE /\ ~r.success
                                 /\ r.error \notin {None, ""}
                                 /\ r.transcription = NoTranscript

\* transcribe has returned after the task of the first scene succeeded, then
\* one task failed and another one raised
TranscriptionFailureIsolationWitness ==
    /\ tPc = "returned"
    /\ Len(tTasks) = 3
    /\ tResults[1].success
    /\ \E j, k \in 1..Len(tTasks) : tOutcome[j] = "failed" /\ tOutcome[k] = "raised"

(***************************************************************************)
(* calculate_scene_timings: the timeline of the scenes.                    *)
(* Durations and times are whole seconds, added exactly.                   *)
(***************************************************************************)
MaxProbes == 3
MaxSceneIndex == 2

ProbeDurations == {0, 3, 4, 5}

\* the probes calculate_scene_timings may be given, in any order
ProbeLists ==
    UNION {[1..n -> [scene_index : 0..MaxSceneIndex, duration : ProbeDurations]]
              : n \in 0..MaxProbes}

\* scene_audio_durations[scene_idx]
RECURSIVE SceneAudioDurations(_, _)
SceneAudioDurations(audio_results, scene_idx) ==
    IF audio_results = <<>> THEN 0
    ELSE (IF Head(audio_results).scene_index = scene_idx
          THEN Head(audio_results).duration ELSE 0)
            + SceneAudioDurations(Tail(audio_results), scene_idx)

\* the keys of scene_audio_durations in the order they were inserted
RECURSIVE KeysAsInserted(_)
KeysAsInserted(audio_results) ==
    IF audio_results = <<>> THEN <<>>
    ELSE LET front == SubSeq(audio_results, 1, Len(audio_results) - 1)
             keys == KeysAsInserted(front)
             scene_idx == audio_results[Len(audio_results)].scene_index
         IN  IF \E n \in 1..Len(keys) : keys[n] = scene_idx
             THEN keys ELSE Append(keys, scene_idx)

RECURSIVE SortedSet(_)
SortedSet(S) ==
    IF S = {} THEN <<>>
    ELSE LET m == CHOOSE x \in S : \A y \in S : x <= y
         IN  <<m>> \o SortedSet(S \ {m})

\* sorted(scene_audio_durations.keys())
SortedKeys(audio_results) ==
    SortedSet({audio_results[n].scene_index : n \in 1..Len(audio_results)})

RECURSIVE TimingsFrom(_, _, _)
TimingsFrom(audio_results, keys, current_time) ==
    IF keys = <<>> THEN <<>>
    ELSE LET duration == SceneAudioDurations(audio_results, Head(keys))
         IN  <<[scene_index |-> Head(keys),
                start_time |-> current_time,
                end_time |-> current_time + duration,
                duration |-> duration]>>
                \o TimingsFrom(audio_results, Tail(keys), current_time + duration)

CalculateSceneTimings(audio_results) ==
    TimingsFrom(audio_results, SortedKeys(audio_results), 0)

CalculateSceneTimingsCall ==
    /\ stPc = "start"
    /\ stTimings' = CalculateSceneTimings(stAudioResults)
    /\ stPc' = "returned"
    /\ UNCHANGED stAudioResults
    /\ UNCHANGED notTimingVars

InitTimings ==
    /\ JobIdle /\ cfgCaptions = FALSE
    /\ AnalyzeIdle
    /\ TranscribeIdle
    /\ ColorIdle
    /\ ProgressIdle
    /\ ListIdle
    /\ SweepIdle
    /\ BuildIdle
    /\ PipelineIdle
    /\ HangIdle
    /\ PoolIdle
    /\ CaptionsIdle
    /\ stAudioResults \in ProbeLists
    /\ stPc = "start"
    /\ stTimings = <<>>

NextTimings == CalculateSceneTimingsCall

SpecTimings == InitTimings /\ [][NextTimings]_vars

\* the scenes that have a probe
ProbedScenes == {stAudioResults[n].scene_index : n \in 1..Len(stAudioResults)}

\* the sum of the probe durations of a scene
SceneSum(scene_idx) ==
    LET Sum[n \in 0..Len(stAudioResults)] ==
            IF n = 0 THEN 0
            ELSE Sum[n - 1] + (IF stAudioResults[n].scene_index = scene_idx
                               THEN stAudioResults[n].duration ELSE 0)
    IN  Sum[Len(stAudioResults)]

\* C11: for a non-empty probe list calculate_scene_timings returns one timing
\* per distinct scene index, ascending by index, the first starting at 0,
\* every later one starting where the one before ends, and each with
\* end - start = duration = the sum of the scene's probe durations; probes
\* (0,5),(1,3),(2,4) give (0,0,5),(1,5,8),(2,8,12).
TimelineContiguity ==
    (stPc = "returned" /\ stAudioResults # <<>>)
        => /\ Len(stTimings) = Cardinality(ProbedScenes)
           /\ {stTimings[n].scene_index : n \in 1..Len(stTimings)} = ProbedScenes
           /\ \A m, n \in 1..Len(stTimings) :
                 m < n => stTimings[m].scene_index < stTimings[n].scene_index
           /\ stTimings[1].start_time = 0
           /\ \A n \in 2..Len(stTimings) :
                 stTimings[n].start_time = stTimings[n - 1].end_time
           /\ \A n \in 1..Len(stTimings) :
                 /\ stTimings[n].end_time - stTimings[n].start_time
                       = stTimings[n].duration
                 /\ stTimings[n].duration = SceneSum(stTimings[n].scene_index)
           /\ stAudioResults = << [scene_index |-> 0, duration |-> 5],
                                  [scene_index |-> 1, duration |-> 3],
                                  [scene_index |-> 2, duration |-> 4] >>
                 => stTimings =
                      << [scene_index |-> 0, start_time |-> 0, end_time |-> 5,
                          duration |-> 5],
                         [scene_index |-> 1, start_time |-> 5, end_time |-> 8,
                          duration |-> 3],
                         [scene_index |-> 2, start_time |-> 8, end_time |-> 12,
                          duration |-> 4] >>

\* timings were calculated for probes given out of scene order, two of them
\* of one scene
TimelineContiguityWitness ==
    /\ stPc = "returned"
    /\ Len(stAudioResults) = 3
    /\ stAudioResults[1].scene_index = 2
    /\ stAudioResults[2].scene_index = 0
    /\ stAudioResults[3].scene_index = 2
    /\ Len(stTimings) = 2
    /\ stTimings[2].duration = 8

(***************************************************************************)
(* create_ass_subtitle_file: the caption events.                           *)
(* Times are tenths of a second.  An event is a Dialogue line; it carries  *)
(* the start and end handed to format_ass_time, the text, and, as history, *)
(* the scene and the word it was made for (word 0 for a full line).        *)
(***************************************************************************)
MaxWords == 2

\* the scene_timings calculate_scene_timings can return
CaptionTimings ==
    { << [scene_index |-> 0, start_time |-> 0, end_time |-> 20, duration |-> 20] >>,
      << [scene_index |-> 0, start_time |-> 0, end_time |-> 20, duration |-> 20],
         [scene_index |-> 1, start_time |-> 20, end_time |-> 50, duration |-> 30] >> }

\* the word timestamps whisper may report for a clip, relative to its start
WordData ==
    { [word |-> " hi", start |-> 0, end |-> 4],
      [word |-> " there", start |-> 4, end |-> 9],
      [word |-> " late", start |-> 35, end |-> 39],
      [word |-> " ", start |-> 4, end |-> 4] }

WordLists == UNION {[1..n -> WordData] : n \in 0..MaxWords}

\* the results transcribe_scene_audios may hold for a scene
SceneTranscriptions(scene_idx) ==
    {[scene_index |-> scene_idx, transcription |-> "", success |-> FALSE,
      word_timestamps |-> <<>>],
     [scene_index |-> scene_idx, transcription |-> "  ", success |-> TRUE,
      word_timestamps |-> <<>>]}
    \cup {[scene_index |-> scene_idx, transcription |-> "hi  there",
           success |-> TRUE, word_timestamps |-> words] : words \in WordLists}

\* str.strip()
StripText(text) ==
    CASE text = " hi" -> "hi"
      [] text = " there" -> "there"
      [] text = " late" -> "late"
      [] text \in {" ", "  "} -> ""
      [] OTHER -> text

CleanTextForAss(text) ==
    CASE text = "" -> ""
      [] text = "hi  there" -> "hi there"
      [] text \in {" ", "  "} -> ""
      [] OTHER -> StripText(text)

Max(a, b) == IF a >= b THEN a ELSE b
Min(a, b) == IF a <= b THEN a ELSE b

\* zip(transcriptions, scene_timings), not filtered
RECURSIVE ZipTranscriptions(_, _)
ZipTranscriptions(transcriptions, scene_timings) ==
    IF transcriptions = <<>> \/ scene_timings = <<>> THEN <<>>
    ELSE << <<Head(transcriptions), Head(scene_timings)>> >>
            \o ZipTranscriptions(Tail(transcriptions), Tail(scene_timings))

\* zip(transcriptions, scene_timings), filtered
RECURSIVE ValidTranscriptions(_, _)
ValidTranscriptions(transcriptions, scene_timings) ==
    IF transcriptions = <<>> \/ scene_timings = <<>> THEN <<>>
    ELSE LET t == Head(transcriptions)
         IN  (IF t.success /\ t.transcription # ""
                 /\ StripText(t.transcription) # ""
              THEN << <<t, Head(scene_timings)>> >> ELSE <<>>)
                \o ValidTranscriptions(Tail(transcriptions), Tail(scene_timings))

RECURSIVE ProgressiveEventsFrom(_, _, _)
ProgressiveEventsFrom(words, scene_timing, i) ==
    IF i > Len(words) THEN <<>>
    ELSE LET word_text == StripText(words[i].word)
             absolute_start == Max(scene_timing.start_time + words[i].start,
                                   scene_timing.start_time)
             subtitle_end ==
                 IF i + 1 <= Len(words)
                 THEN Min(scene_timing.start_time + words[i + 1].start,
                          scene_timing.end_time)
                 ELSE scene_timing.end_time
         IN  (IF word_text # ""
              THEN <<[scene_index |-> scene_timing.scene_index, word |-> i,
                      start |-> absolute_start, end |-> subtitle_end,
                      text |-> CleanTextForAss(word_text)]>>
              ELSE <<>>) \o ProgressiveEventsFrom(words, scene_timing, i + 1)

GenerateProgressiveEvents(transcription_result, scene_timing) ==
    IF transcription_result.word_timestamps = <<>> THEN <<>>
    ELSE ProgressiveEventsFrom(transcription_result.word_timestamps, scene_timing, 1)

RECURSIVE GenerateAssEvents(_, _)
GenerateAssEvents(valid_transcriptions, style) ==
    IF valid_transcriptions = <<>> THEN <<>>
    ELSE LET transcription_result == Head(valid_transcriptions)[1]
             scene_timing == Head(valid_transcriptions)[2]
         IN  (IF style = "progressive"
              THEN GenerateProgressiveEvents(transcription_result, scene_timing)
              ELSE <<[scene_index |-> scene_timing.scene_index, word |-> 0,
                      start |-> scene_timing.start_time,
                      end |-> scene_timing.end_time,
                      text |-> CleanTextForAss(transcription_result.transcription)]>>)
                \o GenerateAssEvents(Tail(valid_transcriptions), style)

CreateAssSubtitleFile ==
    /\ cpPc = "start"
    /\ LET valid_transcriptions == ValidTranscriptions(cpTranscriptions, cpTimings)
       IN  IF valid_transcriptions = <<>>
           THEN cpEvents' = <<>> /\ cpFile' = FALSE
           ELSE /\ cpEvents' = GenerateAssEvents(valid_transcriptions, cpStyle)
                /\ cpFile' = TRUE
    /\ cpPc' = "returned"
    /\ UNCHANGED <<cpStyle, cpTranscriptions, cpTimings>>
    /\ UNCHANGED notCaptionVars

InitCaptions ==
    /\ JobIdle /\ cfgCaptions = FALSE
    /\ AnalyzeIdle
    /\ TranscribeIdle
    /\ ColorIdle
    /\ ProgressIdle
    /\ ListIdle
    /\ SweepIdle
    /\ BuildIdle
    /\ PipelineIdle
    /\ HangIdle
    /\ PoolIdle
    /\ TimingsIdle
    /\ cpStyle \in {"progressive", "classic"}
    /\ cpTimings \in CaptionTimings
    /\ cpTranscriptions \in
          {trs \in [1..Len(cpTimings) ->
                       UNION {SceneTranscriptions(cpTimings[n].scene_index)
                                 : n \in 1..Len(cpTimings)}] :
              \A n \in 1..Len(cpTimings) :
                  trs[n].scene_index = cpTimings[n].scene_index}
    /\ cpPc = "start" /\ cpEvents = <<>> /\ cpFile = FALSE

NextCaptions == CreateAssSubtitleFile

SpecCaptions == InitCaptions /\ [][NextCaptions]_vars

\* the timing of the scene an event was made for
TimingOf(event) ==
    cpTimings[CHOOSE n \in 1..Len(cpTimings) :
                 cpTimings[n].scene_index = event.scene_index]

\* the word an event was made for, and the word after it
WordsOf(event) ==
    cpTranscriptions[CHOOSE n \in 1..Len(cpTranscriptions) :
        cpTranscriptions[n].scene_index = event.scene_index].word_timestamps

\* C12: every event emitted in progressive mode lies inside the window of its
\* scene and is not empty: timing.start <= event.start < event.end <= timing.end.
ProgressiveCaptionBounds ==
    (cpPc = "returned" /\ cpStyle = "progressive")
        => \A n \in 1..Len(cpEvents) :
              /\ TimingOf(cpEvents[n]).start_time <= cpEvents[n].start
              /\ cpEvents[n].start < cpEvents[n].end
              /\ cpEvents[n].end <= TimingOf(cpEvents[n]).end_time

\* C13: the events, in the order they are written, have non-decreasing start
\* times, in classic and in progressive mode.
CaptionEventsMonotonic ==
    cpPc = "returned"
        => \A m, n \in 1..Len(cpEvents) :
              m < n => cpEvents[m].start <= cpEvents[n].start

\* C14: in progressive mode the event of word i starts at timing.start + the
\* word's start, clamped into [timing.start, timing.end], and ends at the
\* absolute start of word i+1 clamped to timing.end, or at timing.end for the
\* last word.
ProgressiveWordTiming ==
    (cpPc = "returned" /\ cpStyle = "progressive")
        => \A n \in 1..Len(cpEvents) :
              LET e == cpEvents[n]
                  timing == TimingOf(e)
                  words == WordsOf(e)
              IN  /\ e.start = Min(Max(timing.start_time + words[e.word].start,
                                       timing.start_time), timing.end_time)
                  /\ e.end = IF e.word < Len(words)
                             THEN Min(timing.start_time + words[e.word + 1].start,
                                      timing.end_time)
                             ELSE timing.end_time

\* the events made for the scene of a transcription
EventsOf(t) == {n \in 1..Len(cpEvents) : cpEvents[n].scene_index = t.scene_index}

\* success is true and the text is not blank
Transcribed(t) == t.success /\ t.transcription \notin {"", " ", "  "}

\* C29: events are written only for scenes whose transcription has
\* success = true and a text that is not blank; in classic (line) mode each
\* such scene gets exactly one event, from start_time to end_time of the
\* timing with the transcription's scene index, with the whole text of the
\* transcription, cleaned for the caption format.
LineModeEvents ==
    cpPc = "returned"
        => \A k \in 1..Len(cpTranscriptions) :
              LET t == cpTranscriptions[k]
              IN  /\ ~Transcribed(t) => EventsOf(t) = {}
                  /\ (Transcribed(t) /\ cpStyle = "classic")
                        => /\ Cardinality(EventsOf(t)) = 1
                           /\ \A n \in EventsOf(t) :
                                 /\ \E m \in 1..Len(cpTimings) :
                                       /\ cpTimings[m].scene_index = t.scene_index
                                       /\ cpEvents[n].start = cpTimings[m].start_time
                                       /\ cpEvents[n].end = cpTimings[m].end_time
                                 /\ cpEvents[n].text = "hi there"

LineModeEventsWitness ==
    /\ cpPc = "returned" /\ cpStyle = "classic"
    /\ Len(cpEvents) = 1 /\ Len(cpTranscriptions) = 2
    /\ ~Transcribed(cpTranscriptions[1]) /\ Transcribed(cpTranscriptions[2])
    /\ cpEvents[1].start > 0

(***************************************************************************)
(* cancel_job with no concurrent writer: one caller calls cancel_job again *)
(* and again on a stored job while no other thread touches the record.     *)
(***************************************************************************)
CancelCaller == <<"cancel", 1>>

ProgressCalls == {i \in DOMAIN Script : Script[i].kind = "progress"}

\* the record after run_job's first update_job_status
StartedRecord ==
    Merge(NewJobData,
          UpdateJobStatusUpdates([ok |-> TRUE, data |-> NewJobData], PROCESSING,
                                 Script[1].name, FALSE, 0))

\* the records of a job whose pipeline is in one of its stages
ProcessingRecords ==
    {StartedRecord}
    \cup {Merge(StartedRecord,
                UpdateJobStatusUpdates([ok |-> TRUE, data |-> StartedRecord],
                                       PROCESSING, Script[i].name, TRUE,
                                       Script[i].progress)) : i \in ProgressCalls}

\* the records a job file can hold when no call is in progress
StoredRecords ==
    {NewJobData}
    \cup ProcessingRecords
    \cup {Merge(r, CompleteJobUpdates([ok |-> TRUE, data |-> r]))
             : r \in {p \in ProcessingRecords : p.progress = 95}}
    \cup {Merge(r, FailJobUpdates(msg))
             : r \in ProcessingRecords,
               msg \in UNION {RaiseMsgs(st) : st \in StagesOf(TRUE, TRUE)}}
    \cup {Merge(r, CancelJobUpdates) : r \in {NewJobData} \cup ProcessingRecords}

InitCancel ==
    /\ AnalyzeIdle /\ TranscribeIdle /\ MoreIdle
    /\ \E r \in StoredRecords :
          /\ file = [state |-> "ok", data |-> r]
          /\ committed = r
          /\ pc = [t \in Threads |->
                     CASE t = Api -> "done"
                       [] t = Worker ->
                            (CASE r.status = PENDING -> "queued"
                               [] r.status = PROCESSING -> "stage_run"
                               [] OTHER -> "done")
                       [] OTHER -> "idle"]
    /\ lockEx = NoThread
    /\ lockSh = {}
    /\ phase = [t \in Threads |-> "idle"]
    /\ upd = [t \in Threads |-> NoUpdates]
    /\ jd = [t \in Threads |-> NoData]
    /\ ret = [t \in Cancellers \cup Readers |-> "none"]
    /\ cancelOk = FALSE
    /\ idx = 0
    /\ cfgCaptions = FALSE
    /\ transcribed = FALSE
    /\ stagesStarted = {}
    /\ stagesOk = {}
    /\ raised = None
    /\ rdExisted = [r \in Readers |-> FALSE]

NextCancel ==
    \/ CancelJob(CancelCaller)
    \/ ReadOpen(CancelCaller)
    \/ ReadLock(CancelCaller)
    \/ ReadLoad(CancelCaller)
    \/ UpdateOpen(CancelCaller)
    \/ UpdateLock(CancelCaller)
    \/ UpdateDump(CancelCaller)
    \/ UpdateTruncate(CancelCaller)

SpecCancel == InitCancel /\ [][NextCancel]_vars

\* C15: with no concurrent writer, cancel_job on a Completed, Failed or
\* Cancelled job returns False and no step of it changes the record;
\* cancel_job on a Pending (or Processing) job goes on to write, returns True
\* and leaves the status Cancelled, so that a second call returns False.
CancelIdempotence ==
    [][/\ (file.state = "ok" /\ StatusOf \in Terminal)
            => /\ file' = file
               /\ ret'[CancelCaller] = "true" => ret[CancelCaller] = "true"
       /\ (pc[CancelCaller] = "cn_read" /\ pc'[CancelCaller] # "cn_read")
            => IF StatusOf \in Terminal
               THEN pc'[CancelCaller] = "idle" /\ ret'[CancelCaller] = "false"
               ELSE pc'[CancelCaller] = "cn_update"
       /\ (pc[CancelCaller] = "cn_update" /\ pc'[CancelCaller] = "idle")
            => /\ ret'[CancelCaller] = "true"
               /\ file'.state = "ok" /\ StatusOf' = CANCELLED]_vars

\* a Pending job was cancelled, and a second cancel_job has returned False
CancelIdempotenceWitness ==
    /\ cancelOk
    /\ pc[CancelCaller] = "idle" /\ ret[CancelCaller] = "false"
    /\ file.data = Merge(NewJobData, CancelJobUpdates)

\* C16: the status leaves Pending only for Processing or Cancelled and
\* leaves Processing only for Completed, Failed or Cancelled; it never
\* returns to Pending; and a job is Completed or Failed only after it has
\* been Processing (started_at is written only together with the status
\* Processing, when that status is written for the first time).
StatusStateMachine ==
    [][Exists =>
         /\ StatusOf = PENDING => StatusOf' \in {PENDING, PROCESSING, CANCELLED}
         /\ StatusOf = PROCESSING
               => StatusOf' \in {PROCESSING, COMPLETED, FAILED, CANCELLED}
         /\ StatusOf # PENDING => StatusOf' # PENDING
         /\ StatusOf' \in {COMPLETED, FAILED} => file'.data.started_at # None]_vars

\* a job went from Pending over Processing to Failed, and another caller's
\* cancel_job was refused
StatusStateMachineWitness ==
    /\ pc[Worker] = "done" /\ file.state = "ok" /\ StatusOf = FAILED
    /\ ~cancelOk
    /\ \E c \in Cancellers : ret[c] = "false"

(***************************************************************************)
(* The executor of FileJobService: several jobs, one ThreadPoolExecutor.   *)
(***************************************************************************)
MaxJobs == 3
VideoGenerationWorkers == 2

PoolJobs == 1..MaxJobs

PoolUnbounded == TRUE

\* a pool none of whose threads ever takes a task
PoolNeverIdle == FALSE

\* ThreadPoolExecutor(max_workers=...): a worker thread is idle or can still
\* be started
PoolHasIdleWorker == Cardinality(plRunning) < VideoGenerationWorkers

\* generate_video_async: create_job, then submit_job, which puts run_job on
\* the executor's queue and returns
GenerateVideoAsync(j) ==
    /\ plStatus[j] = "none"
    /\ plStatus' = [plStatus EXCEPT ![j] = PENDING]
    /\ plQueue' = Append(plQueue, j)
    /\ UNCHANGED <<plRunning, plStarted>>
    /\ UNCHANGED notPoolVars

\* a worker thread takes the oldest queued run_job
PoolWorkerTakes ==
    /\ plQueue # <<>>
    /\ PoolHasIdleWorker
    /\ plRunning' = plRunning \cup {Head(plQueue)}
    /\ plQueue' = Tail(plQueue)
    /\ UNCHANGED <<plStatus, plStarted>>
    /\ UNCHANGED notPoolVars

\* run_job: update_job_status(job_id, PROCESSING, ...), whatever is stored
PoolRunJobStarts(j) ==
    /\ j \in plRunning \ plStarted
    /\ plStatus' = [plStatus EXCEPT ![j] = PROCESSING]
    /\ plStarted' = plStarted \cup {j}
    /\ UNCHANGED <<plQueue, plRunning>>
    /\ UNCHANGED notPoolVars

\* run_job: complete_job or fail_job, and the worker thread is free again
PoolRunJobEnds(j, status) ==
    /\ j \in plStarted
    /\ plStatus' = [plStatus EXCEPT ![j] = status]
    /\ plRunning' = plRunning \ {j}
    /\ plStarted' = plStarted \ {j}
    /\ UNCHANGED plQueue
    /\ UNCHANGED notPoolVars

\* cancel_job: writes cancelled over pending or processing; the queued or
\* running run_job is not told
PoolCancelJob(j) ==
    /\ plStatus[j] \in {PENDING, PROCESSING}
    /\ plStatus' = [plStatus EXCEPT ![j] = CANCELLED]
    /\ UNCHANGED <<plQueue, plRunning, plStarted>>
    /\ UNCHANGED notPoolVars

InitPool ==
    /\ JobIdle /\ cfgCaptions = FALSE
    /\ AnalyzeIdle
    /\ TranscribeIdle
    /\ ColorIdle
    /\ ProgressIdle
    /\ ListIdle
    /\ SweepIdle
    /\ BuildIdle
    /\ PipelineIdle
    /\ HangIdle
    /\ TimingsIdle
    /\ CaptionsIdle
    /\ plStatus = [j \in PoolJobs |-> "none"]
    /\ plQueue = <<>>
    /\ plRunning = {}
    /\ plStarted = {}

NextPool ==
    \/ \E j \in PoolJobs : GenerateVideoAsync(j)
    \/ PoolWorkerTakes
    \/ \E j \in PoolJobs : PoolRunJobStarts(j)
    \/ \E j \in PoolJobs, status \in {COMPLETED, FAILED} : PoolRunJobEnds(j, status)
    \/ \E j \in PoolJobs : PoolCancelJob(j)

SpecPool == InitPool /\ [][NextPool]_vars

\* The executor's threads are scheduled fairly: a queued run_job is taken when
\* a thread is free. Every stage of a pipeline returns or raises, so a
\* run_job that was taken writes processing, and one that has started ends
\* with complete_job or fail_job.
PoolFairness ==
    /\ WF_vars(PoolWorkerTakes)
    /\ \A j \in PoolJobs :
          /\ WF_vars(PoolRunJobStarts(j))
          /\ WF_vars(\E status \in {COMPLETED, FAILED} : PoolRunJobEnds(j, status))

SpecPoolFair == InitPool /\ [][NextPool]_vars /\ PoolFairness

\* the jobs whose pipeline is executing
PipelinesExecuting == plRunning \cap plStarted

\* C17: at most the pool size of jobs have their pipeline executing; a job is
\* Processing only while a worker thread executes its pipeline; a job waiting
\* in the queue has not started and is still Pending (or Cancelled, if it
\* was cancelled while it waited); and a new job can always be created and
\* submitted, whatever the workers are doing.
RenderPoolBounded ==
    /\ Cardinality(PipelinesExecuting) <= VideoGenerationWorkers
    /\ Cardinality(plRunning) <= VideoGenerationWorkers
    /\ \A j \in PoolJobs : plStatus[j] = PROCESSING => j \in PipelinesExecuting
    /\ \A n \in 1..Len(plQueue) :
          /\ plStatus[plQueue[n]] \in {PENDING, CANCELLED}
          /\ plQueue[n] \notin plRunning
    /\ \A j \in PoolJobs : plStatus[j] = "none" => ENABLED GenerateVideoAsync(j)

\* both workers run a pipeline and a third job, submitted after them, waits
RenderPoolBoundedWitness ==
    /\ Cardinality(PipelinesExecuting) = VideoGenerationWorkers
    /\ \A j \in plRunning : plStatus[j] = PROCESSING
    /\ Len(plQueue) = 1
    /\ plStatus[plQueue[1]] = PENDING

\* C38: under PoolFairness every job that is Pending or Processing is later
\* Completed, Failed or Cancelled, whatever jobs are queued ahead of it and
\* whatever cancel_job calls are made: no job stays Pending or Processing
\* forever.
EveryJobEnds ==
    \A j \in PoolJobs :
        (plStatus[j] \in {PENDING, PROCESSING}) ~> (plStatus[j] \in Terminal)

\* every job of the model has been through the pool, which has fewer
\* threads than there were jobs
EveryJobEndsWitness ==
    /\ \A j \in PoolJobs : plStatus[j] \in {COMPLETED, FAILED}
    /\ plQueue = <<>> /\ plRunning = {}
    /\ MaxJobs > VideoGenerationWorkers

(***************************************************************************)
(* transcribe_scene_audios when a whisper call never returns.              *)
(***************************************************************************)

\* _transcribe_scene_task: model.transcribe(audio_url, ...) is called without
\* a timeout and never returns; the future stays unfinished and its worker
\* thread stays taken
TranscribeSceneTaskHangs(k) ==
    /\ tPc = "pool"
    /\ k \in TranscriptionsRunning \ tHung
    /\ tHung' = tHung \cup {k}
    /\ UNCHANGED notHangVars

\* as_completed(future_to_task) is called without a timeout and yields only
\* finished futures, so future.result(timeout=...) never waits; leaving the
\* with block waits for every task: the steps are those of SpecTranscribe
NextTranscribeTimeout ==
    \/ TranscribeStart
    \/ \E k \in 1..Len(tTasks), outcome \in TranscribeOutcomes :
           k \notin tHung /\ TranscribeSceneTask(k, outcome)
    \/ \E k \in 1..Len(tTasks) : TranscribeSceneTaskHangs(k)
    \/ \E k \in 1..Len(tTasks) : TranscribeAsCompleted(k)
    \/ TranscribeReturn

SpecTranscribeTimeout == InitTranscribe /\ [][NextTranscribeTimeout]_vars

\* C18: transcribe always returns: while it has not returned, something can
\* still happen, even when a transcription task never finishes; such a task
\* is given up after its timeout and recorded as failed for its scene.
TranscriptionTimeoutFires ==
    tPc = "pool" => ENABLED NextTranscribeTimeout

(***************************************************************************)
(* One request: generate_video_async, run_job and the stages of            *)
(* _process_video_generation, in the order the code runs them.             *)
(***************************************************************************)
MinDimension == 100
MaxDimension == 4000

\* width and height of a request, inside and outside the accepted range
Dimensions == {0, 99, 1920}

Requests ==
    [scenes : Configs, background : BOOLEAN, subtitle_element : BOOLEAN,
     enable_subtitles : BOOLEAN, width : Dimensions, height : {0, 1080}]

\* VideoConfig(**config_data): width and height are Field(ge=100, le=4000)
ParseVideoConfigOk(request) ==
    /\ request.width >= MinDimension /\ request.width <= MaxDimension
    /\ request.height >= MinDimension /\ request.height <= MaxDimension

NeverEmpty(audio_info) == FALSE

\* if not audio_info
NoAudioInfo(audio_info) == audio_info = <<>>

\* the message of the ConfigurationError _validate_config raises, <<>> if none
ValidateConfig(config, audio_info) ==
    IF ~config.background THEN <<"No background video specified">>
    ELSE IF audio_info = <<>> THEN <<"No audio files found">>
    ELSE IF config.width <= 0 \/ config.height <= 0
         THEN <<"Invalid video dimensions">>
    ELSE IF Len(config.scenes) = 0 THEN <<"No scenes specified">>
    ELSE <<>>

\* how the ffmpeg process ends: in time with an exit code and what it wrote
\* to stderr, or not within settings.ffmpeg_timeout
FfmpegOutcomes ==
    [timeout : {FALSE}, returncode : {0, 1, 254},
     stderr : {"", "x.png: No such file or directory"}]
      \cup {[timeout |-> TRUE, returncode |-> 0, stderr |-> ""]}

\* generate_video_async: _parse_video_config, then create_job and submit_job
PipelineRequest ==
    /\ pvPc = "request"
    /\ IF ParseVideoConfigOk(pvRequest)
       THEN pvStatus' = PENDING /\ pvHttp' = 202 /\ pvPc' = "queued"
       ELSE pvStatus' = pvStatus /\ pvHttp' = 400 /\ pvPc' = "rejected"
    /\ UNCHANGED <<pvRequest, pvError, pvAudioInfo, pvProbes, pvTranscriptions,
                   pvCaptions, pvRender>>
    /\ UNCHANGED <<pvAttempts, pvProcess, pvFailure>>
    /\ UNCHANGED notPipeVars

\* run_job: update_job_status(job_id, PROCESSING, "Starting video generation")
PipelineRunJob ==
    /\ pvPc = "queued"
    /\ pvStatus' = PROCESSING
    /\ pvPc' = "analyze"
    /\ UNCHANGED <<pvRequest, pvHttp, pvError, pvAudioInfo, pvProbes,
                   pvTranscriptions, pvCaptions, pvRender>>
    /\ UNCHANGED <<pvAttempts, pvProcess, pvFailure>>
    /\ UNCHANGED notPipeVars

\* analyze_audio_durations and the check of its result: one probe task per
\* collected audio task, each with its own outcome
PipelineAnalyze(outcomes) ==
    /\ pvPc = "analyze"
    /\ LET audio_tasks == AudioTasks(pvRequest.scenes)
           audio_info ==
               IF audio_tasks = <<>> THEN <<>>
               ELSE [k \in 1..Len(audio_tasks) |->
                        CollectedResult(audio_tasks[k], outcomes[k])]
       IN  /\ DOMAIN outcomes = 1..Len(audio_tasks)
           /\ pvProbes' = Len(audio_tasks)
           /\ pvAudioInfo' = audio_info
           /\ IF NoAudioInfo(audio_info)
              THEN /\ pvError' = <<"No audio files found in configuration">>
                   /\ pvPc' = "raise"
              ELSE /\ pvError' = pvError
                   /\ pvPc' = "transcribe"
    /\ UNCHANGED <<pvRequest, pvHttp, pvStatus, pvTranscriptions, pvCaptions,
                   pvRender>>
    /\ UNCHANGED <<pvAttempts, pvProcess, pvFailure>>
    /\ UNCHANGED notPipeVars

\* calculate_scene_timings and, with subtitles on, transcribe_scene_audios
PipelineTranscribe ==
    /\ pvPc = "transcribe"
    /\ LET scene_timings == CalculateSceneTimings(pvAudioInfo)
           tasks == TranscriptionTasks(pvAudioInfo, scene_timings)
       IN  IF pvRequest.enable_subtitles /\ pvRequest.subtitle_element
           THEN /\ pvTranscriptions' = Len(tasks)
                /\ pvPc' = IF tasks # <<>> THEN "subtitles" ELSE "build"
           ELSE /\ pvTranscriptions' = pvTranscriptions
                /\ pvPc' = "build"
    /\ UNCHANGED <<pvRequest, pvHttp, pvStatus, pvError, pvAudioInfo, pvProbes,
                   pvCaptions, pvRender>>
    /\ UNCHANGED <<pvAttempts, pvProcess, pvFailure>>
    /\ UNCHANGED notPipeVars

\* if transcriptions: create_ass_subtitle_file
PipelineSubtitles ==
    /\ pvPc = "subtitles"
    /\ pvCaptions' = TRUE
    /\ pvPc' = "build"
    /\ UNCHANGED <<pvRequest, pvHttp, pvStatus, pvError, pvAudioInfo, pvProbes,
                   pvTranscriptions, pvRender>>
    /\ UNCHANGED <<pvAttempts, pvProcess, pvFailure>>
    /\ UNCHANGED notPipeVars

\* generate_ffmpeg_command: _validate_config; its ConfigurationError is
\* caught and raised again as FFmpegError("Command generation failed: ...")
PipelineBuild ==
    /\ pvPc = "build"
    /\ LET message == ValidateConfig(pvRequest, pvAudioInfo)
       IN  IF message # <<>>
           THEN /\ pvError' = <<"Command generation failed: ">> \o message
                /\ pvPc' = "raise"
           ELSE /\ pvError' = pvError
                /\ pvPc' = "execute"
    /\ UNCHANGED <<pvRequest, pvHttp, pvStatus, pvAudioInfo, pvProbes,
                   pvTranscriptions, pvCaptions, pvRender>>
    /\ UNCHANGED <<pvAttempts, pvProcess, pvFailure>>
    /\ UNCHANGED notPipeVars

\* the FFmpegError execute_ffmpeg_command raises for a process that exits
\* with a nonzero code: raise FFmpegError(message, command=, stderr=) inside
\* the try block, caught by its `except Exception as e` and raised again as
\* FFmpegError(f"FFmpeg execution error: {e}")
ProcessFailure(returncode, stderr) ==
    [class |-> "FFmpegError",
     message |-> <<"FFmpeg execution error: ",
                   "FFmpeg execution failed with code ", ToString(returncode)>>,
     stderr |-> "None"]

\* execute_ffmpeg_command: one subprocess.run of the ffmpeg command, and the
\* exception that leaves _process_video_generation
PipelineExecute(outcome) ==
    /\ pvPc = "execute"
    /\ pvRender' = TRUE
    /\ pvAttempts' = pvAttempts + 1
    /\ pvProcess' = <<outcome>>
    /\ IF outcome.timeout
       THEN /\ pvFailure' = <<[class |-> "FFmpegError",
                               message |-> <<"FFmpeg execution timed out">>,
                               stderr |-> "None"]>>
            /\ pvError' = <<"FFmpeg execution timed out">>
            /\ pvPc' = "raise"
       ELSE IF outcome.returncode # 0
       THEN /\ pvFailure' = <<ProcessFailure(outcome.returncode, outcome.stderr)>>
            /\ pvError' = ProcessFailure(outcome.returncode, outcome.stderr).message
            /\ pvPc' = "raise"
       ELSE /\ pvFailure' = pvFailure
            /\ pvError' = pvError
            /\ pvPc' = "complete"
    /\ UNCHANGED <<pvRequest, pvHttp, pvStatus, pvAudioInfo, pvProbes,
                   pvTranscriptions, pvCaptions>>
    /\ UNCHANGED notPipeVars

\* run_job: except Exception as e: fail_job(job_id, str(e))
PipelineFailJob ==
    /\ pvPc = "raise"
    /\ pvStatus' = FAILED
    /\ pvPc' = "done"
    /\ UNCHANGED <<pvRequest, pvHttp, pvError, pvAudioInfo, pvProbes,
                   pvTranscriptions, pvCaptions, pvRender>>
    /\ UNCHANGED <<pvAttempts, pvProcess, pvFailure>>
    /\ UNCHANGED notPipeVars

\* run_job: complete_job(job_id, result)
PipelineCompleteJob ==
    /\ pvPc = "complete"
    /\ pvStatus' = COMPLETED
    /\ pvPc' = "done"
    /\ UNCHANGED <<pvRequest, pvHttp, pvError, pvAudioInfo, pvProbes,
                   pvTranscriptions, pvCaptions, pvRender>>
    /\ UNCHANGED <<pvAttempts, pvProcess, pvFailure>>
    /\ UNCHANGED notPipeVars

InitPipeline ==
    /\ JobIdle /\ cfgCaptions = FALSE
    /\ AnalyzeIdle
    /\ TranscribeIdle
    /\ ColorIdle
    /\ ProgressIdle
    /\ ListIdle
    /\ SweepIdle
    /\ BuildIdle
    /\ TimingsIdle
    /\ CaptionsIdle
    /\ PoolIdle
    /\ HangIdle
    /\ pvRequest \in Requests
    /\ pvPc = "request" /\ pvHttp = 0 /\ pvStatus = "none"
    /\ pvError = <<>> /\ pvAudioInfo = <<>> /\ pvProbes = 0
    /\ pvTranscriptions = 0 /\ pvCaptions = FALSE /\ pvRender = FALSE
    /\ pvAttempts = 0 /\ pvProcess = <<>> /\ pvFailure = <<>>

NextPipeline ==
    \/ PipelineRequest
    \/ PipelineRunJob
    \/ \E outcomes \in UNION {[1..n -> ProbeOutcomes] : n \in 0..MaxAudio} :
           PipelineAnalyze(outcomes)
    \/ PipelineTranscribe
    \/ PipelineSubtitles
    \/ PipelineBuild
    \/ \E outcome \in FfmpegOutcomes : PipelineExecute(outcome)
    \/ PipelineFailJob
    \/ PipelineCompleteJob

SpecPipeline == InitPipeline /\ [][NextPipeline]_vars

\* the request was accepted and a job exists for it
JobCreated == pvPc \notin {"request", "rejected"}

NoAudioSources == AudioTasks(pvRequest.scenes) = <<>>

\* C19: a job whose configuration has no audio source never has a probe
\* task, a transcription task, a caption file or a render process started for
\* it, it cannot stop before fail_job, and it ends Failed with the
\* configuration error "No audio files found in configuration".
NoAudioIsConfigurationError ==
    (JobCreated /\ NoAudioSources)
        => /\ pvProbes = 0 /\ pvTranscriptions = 0
           /\ ~pvCaptions /\ ~pvRender
           /\ pvStatus # COMPLETED
           /\ pvPc # "done" => ENABLED NextPipeline
           /\ pvPc = "done"
                => /\ pvStatus = FAILED
                   /\ pvError = <<"No audio files found in configuration">>

\* a job with a scene whose only audio element has a blank src has failed
NoAudioIsConfigurationErrorWitness ==
    /\ pvPc = "done" /\ pvStatus = FAILED
    /\ NoAudioSources
    /\ \E i \in 1..Len(pvRequest.scenes) : Len(pvRequest.scenes[i]) > 0
    /\ pvRequest.background /\ pvRequest.subtitle_element

\* C20: a job whose configuration has no background visual, no scene or
\* invalid dimensions ends Failed, and no probe task, transcription task or
\* caption file was started for it.
ConfigurationErrorsAbortFirst ==
    (/\ JobCreated
     /\ \/ ~pvRequest.background
        \/ Len(pvRequest.scenes) = 0
        \/ ~ParseVideoConfigOk(pvRequest))
        => /\ pvProbes = 0 /\ pvTranscriptions = 0 /\ ~pvCaptions
           /\ pvPc = "done" => pvStatus = FAILED

(***************************************************************************)
(* FFmpegService.generate_ffmpeg_command as a function of its arguments.   *)
(***************************************************************************)
MaxBuildScenes == 2
MaxImages == 2
MaxBuildProbes == 2

ImageLocators ==
    {"https://cdn.test/x.png",
     "https://drive.google.com/file/d/1AbCdEfGhIjKlMnOpQrStUvWx/view"}

\* config.scenes as the builder reads it: the srcs of the ImageElements of
\* each scene; every image element of the model is at x = 100, y = 200
BuildScenes ==
    LET Srcs == UNION {[1..m -> ImageLocators] : m \in 0..MaxImages}
    IN  UNION {{scenes \in [1..n -> Srcs] :
                   SumTo([i \in 1..n |-> Len(scenes[i])], n) <= MaxImages}
                  : n \in 0..MaxBuildScenes}

\* the VideoElement of a configuration that has one
\* a duration is <<>> for None and <<d>> for d seconds
BackgroundVideo == [src |-> "https://cdn.test/bg.mp4", duration |-> <<4>>]

\* config.get_background_video(), for a configuration that holds a video
\* element; bg_duration is the duration of the element where the
\* configuration gives one
GetBackgroundVideo(config) ==
    IF "bg_duration" \in DOMAIN config
    THEN [src |-> BackgroundVideo.src, duration |-> config.bg_duration]
    ELSE BackgroundVideo

BuildConfigs ==
    [scenes : BuildScenes, background : BOOLEAN,
     width : {0, 1920}, height : {0, 1080}]

\* probe lists in any order, the k-th for the locator Locators[k]
BuildProbeLists ==
    UNION {{[k \in 1..n |-> [scene_index |-> l[k].scene_index,
                             url |-> ProcessGdriveUrl(Locators[k]),
                             duration |-> l[k].duration]] :
               l \in [1..n -> [scene_index : 0..(MaxBuildScenes - 1),
                               duration : {3, 5}]]}
              : n \in 0..MaxBuildProbes}

\* a label without its number
UnnumberedLabel(s, n) == [s |-> s, n |-> 0]

\* a stream label: [s] or, for a numbered one, [s_n], [n:a], [n:v]
Label(s, n) == [s |-> s, n |-> n]
Filter(kind, ins, nums, path, out) ==
    [kind |-> kind, ins |-> ins, nums |-> nums, path |-> path, out |-> out]

\* int(total_duration / bg_duration), without the + 1
LoopsRoundedDown(bg_duration, total_duration) ==
    IF bg_duration = <<>> \/ bg_duration[1] <= 0 THEN -1
    ELSE total_duration \div bg_duration[1]

\* _calculate_loops, for the whole seconds of the model
CalculateLoops(bg_duration, total_duration) ==
    IF bg_duration = <<>> \/ bg_duration[1] <= 0 THEN -1
    ELSE (total_duration \div bg_duration[1]) + 1

RECURSIVE CollectImageData(_, _)
CollectImageData(scenes, i) ==
    IF i > Len(scenes) THEN <<>>
    ELSE [j \in 1..Len(scenes[i]) |->
             [url |-> ProcessGdriveUrl(scenes[i][j]), x |-> 100, y |-> 200,
              scene_index |-> i - 1]]
            \o CollectImageData(scenes, i + 1)

\* unique_image_urls: the urls of image_data, first seen first
RECURSIVE UniqueImageUrls(_)
UniqueImageUrls(image_data) ==
    IF image_data = <<>> THEN <<>>
    ELSE LET front == SubSeq(image_data, 1, Len(image_data) - 1)
             unique == UniqueImageUrls(front)
             url == image_data[Len(image_data)].url
         IN  IF \E n \in 1..Len(unique) : unique[n] = url
             THEN unique ELSE Append(unique, url)

GenerateAudioFilters(audio_urls) ==
    IF Len(audio_urls) > 1
    THEN <<Filter("concat", [i \in 1..Len(audio_urls) |-> Label("input:a", i)],
                  <<Len(audio_urls)>>, "", Label("concatenated_audio", 0)),
           Filter("apad", <<Label("concatenated_audio", 0)>>, <<2>>, "",
                  Label("final_audio", 0))>>
    ELSE IF Len(audio_urls) = 1
    THEN <<Filter("apad", <<Label("input:a", 1)>>, <<2>>, "",
                  Label("final_audio", 0))>>
    ELSE <<>>

\* FFmpegService._calculate_scene_timings
RECURSIVE BuilderSceneDuration(_, _)
BuilderSceneDuration(audio_info, scene_idx) ==
    IF audio_info = <<>> THEN 0
    ELSE BuilderSceneDuration(SubSeq(audio_info, 1, Len(audio_info) - 1), scene_idx)
           + (IF audio_info[Len(audio_info)].scene_index = scene_idx
              THEN audio_info[Len(audio_info)].duration ELSE 0)

EverySceneFromZero(audio_info) ==
    LET keys == SortedSet({audio_info[n].scene_index : n \in 1..Len(audio_info)})
    IN  [k \in 1..Len(keys) |->
            [scene_index |-> keys[k], start_time |-> 0,
             end_time |-> BuilderSceneDuration(audio_info, keys[k]),
             duration |-> BuilderSceneDuration(audio_info, keys[k])]]

RECURSIVE BuilderTimings(_, _, _, _)
BuilderTimings(audio_info, keys, k, current_time) ==
    IF k > Len(keys) THEN <<>>
    ELSE LET duration == BuilderSceneDuration(audio_info, keys[k])
         IN  <<[scene_index |-> keys[k], start_time |-> current_time,
                end_time |-> current_time + duration, duration |-> duration]>>
                \o BuilderTimings(audio_info, keys, k + 1, current_time + duration)

BuilderCalculateSceneTimings(audio_info) ==
    BuilderTimings(audio_info,
        SortedSet({audio_info[n].scene_index : n \in 1..Len(audio_info)}), 1, 0)

\* the loop of _generate_image_overlays from image_data[i] on, i counted
\* from 0 as enumerate does
RECURSIVE ImageOverlays(_, _, _, _, _, _)
ImageOverlays(image_data, i, overlay_count, unique, scene_timings, base) ==
    IF i >= Len(image_data) THEN <<>>
    ELSE LET img_data == image_data[i + 1]
             img_input_idx ==
                 base - 1
                   + (CHOOSE n \in 1..Len(unique) :
                         /\ unique[n] = img_data.url
                         /\ \A m \in 1..(n - 1) : unique[m] # img_data.url)
             found == {n \in 1..Len(scene_timings) :
                          scene_timings[n].scene_index = img_data.scene_index}
         IN  IF found = {}
             THEN ImageOverlays(image_data, i + 1, overlay_count,
                                unique, scene_timings, base)
             ELSE LET scene_timing ==
                          scene_timings[CHOOSE n \in found : \A m \in found : n <= m]
                      current_video ==
                          IF overlay_count = 0 THEN Label("0:v", 0)
                          ELSE Label("overlay", overlay_count - 1)
                  IN  <<Filter("scale", <<Label("input:v", img_input_idx)>>,
                               <<500, 500>>, "", Label("scaled_img", i)),
                        Filter("overlay", <<current_video, Label("scaled_img", i)>>,
                               <<img_data.x, img_data.y, scene_timing.start_time,
                                 scene_timing.end_time>>, "",
                               Label("overlay", overlay_count))>>
                        \o ImageOverlays(image_data, i + 1, overlay_count + 1,
                                         unique, scene_timings, base)

\* the overlays with the image inputs counted from input 1
OverlaysFromFirstInput(image_data, unique_image_urls, audio_info, audio_input_count) ==
    ImageOverlays(image_data, 0, 0, unique_image_urls,
                  BuilderCalculateSceneTimings(audio_info), 1)

GenerateImageOverlays(image_data, unique_image_urls, audio_info, audio_input_count) ==
    ImageOverlays(image_data, 0, 0, unique_image_urls,
                  BuilderCalculateSceneTimings(audio_info), audio_input_count + 1)

RECURSIVE SumProbeDurations(_)
SumProbeDurations(audio_info) ==
    IF audio_info = <<>> THEN 0
    ELSE Head(audio_info).duration + SumProbeDurations(Tail(audio_info))

\* except Exception as e: raise FFmpegError(f"Command generation failed: {e}")
RaisedFFmpegError(message) ==
    [raised |-> <<"FFmpegError", "Command generation failed: ">> \o message,
     command |-> <<>>]

FiltersOfLastCall == IF bdCommand = <<>> THEN <<>> ELSE bdCommand[1].filter_complex

\* filters = []
NewFilterList == <<>>

\* generate_ffmpeg_command: what it raises and what it returns
GenerateFfmpegCommand(config, audio_info, output_path, subtitle_file_path) ==
    IF ValidateConfig(config, audio_info) # <<>>
    THEN RaisedFFmpegError(ValidateConfig(config, audio_info))
    ELSE
    LET bg_video == GetBackgroundVideo(config)
        total_duration == SumProbeDurations(audio_info) + 2
        audio_urls == [k \in 1..Len(audio_info) |-> audio_info[k].url]
        image_data == CollectImageData(config.scenes, 1)
        unique_image_urls == UniqueImageUrls(image_data)
        audio_filters == GenerateAudioFilters(audio_urls)
        image_filters ==
            IF unique_image_urls # <<>>
            THEN GenerateImageOverlays(image_data, unique_image_urls, audio_info,
                                       Len(audio_urls))
            ELSE <<>>
        overlaid ==
            IF image_filters # <<>> THEN image_filters[Len(image_filters)].out
            ELSE Label("0:v", 0)
        subtitle_filters ==
            IF subtitle_file_path # ""
            THEN <<Filter("ass", <<overlaid>>, <<>>, subtitle_file_path,
                          Label("subtitled_video", 0))>>
            ELSE <<>>
    IN  [raised |-> <<>>,
         command |->
           <<[stream_loop |-> CalculateLoops(bg_video.duration, total_duration),
              inputs |-> <<ProcessGdriveUrl(bg_video.src)>> \o audio_urls
                           \o [n \in 1..Len(unique_image_urls) |->
                                  ProcessGdriveUrl(unique_image_urls[n])],
              filter_complex |-> NewFilterList \o audio_filters \o image_filters
                                  \o subtitle_filters,
              map_video |-> IF subtitle_filters # <<>>
                            THEN Label("subtitled_video", 0) ELSE overlaid,
              map_audio |-> IF audio_urls # <<>> THEN Label("final_audio", 0)
                            ELSE Label("0:a", 0),
              encoding |-> <<"libx264", "fast", "23">>,
              s |-> <<config.width, config.height>>,
              t |-> total_duration,
              output_path |-> output_path]>>]

GenerateFfmpegCommandCall ==
    /\ bdPc = "call"
    /\ LET got == GenerateFfmpegCommand(bdConfig, bdAudioInfo, "/out/job.mp4", bdSubtitle)
       IN  /\ bdRaised' = got.raised
           /\ bdCommand' = got.command
           /\ bdPc' = IF got.raised = <<>> THEN "returned" ELSE "raised"
           /\ bdHistory' = Append(bdHistory,
                  [config |-> bdConfig, audio_info |-> bdAudioInfo,
                   subtitle_file_path |-> bdSubtitle, result |-> got])
    /\ UNCHANGED <<bdConfig, bdAudioInfo, bdSubtitle>>
    /\ UNCHANGED notBuildVars

InitBuild ==
    /\ JobIdle /\ cfgCaptions = FALSE
    /\ AnalyzeIdle
    /\ TranscribeIdle
    /\ ColorIdle
    /\ ProgressIdle
    /\ ListIdle
    /\ SweepIdle
    /\ TimingsIdle /\ CaptionsIdle /\ PoolIdle /\ HangIdle /\ PipelineIdle
    /\ bdConfig \in BuildConfigs
    /\ bdAudioInfo \in BuildProbeLists
    /\ bdSubtitle \in {"", "/tmp/x/subtitles.ass"}
    /\ bdPc = "call" /\ bdRaised = <<>> /\ bdCommand = <<>> /\ bdHistory = <<>>

NextBuild == GenerateFfmpegCommandCall

SpecBuild == InitBuild /\ [][NextBuild]_vars

\* C21: whenever the configuration has no background, the probe list is
\* empty, the width or the height is not positive or there is no scene, the
\* call returns no command and raises a ConfigurationError.
BuildValidatesFirst ==
    (/\ bdPc # "call"
     /\ \/ ~bdConfig.background
        \/ bdAudioInfo = <<>>
        \/ bdConfig.width <= 0 \/ bdConfig.height <= 0
        \/ Len(bdConfig.scenes) = 0)
        => /\ bdPc = "raised" /\ bdCommand = <<>>
           /\ bdRaised[1] = "ConfigurationError"

\* image_data of the configuration the builder was called with
BuildImageData == CollectImageData(bdConfig.scenes, 1)

\* the number of scale filters of the returned command that read input
\* number input_idx, each feeding one overlay filter
OverlaysReading(input_idx) ==
    LET filters == bdCommand[1].filter_complex
    IN  Cardinality({n \in 1..Len(filters) :
            /\ filters[n].kind = "scale"
            /\ filters[n].ins = <<Label("input:v", input_idx)>>
            /\ n < Len(filters)
            /\ filters[n + 1].kind = "overlay"
            /\ filters[n + 1].ins[2] = filters[n].out})

\* C22: in a returned command every image locator referenced by N image
\* elements has exactly one input, and exactly N overlay filters read from
\* that input.
ImageDeduplication ==
    bdPc = "returned"
        => \A u \in {BuildImageData[n].url : n \in 1..Len(BuildImageData)} :
              LET inputs == bdCommand[1].inputs
                  slots == {p \in (Len(bdAudioInfo) + 2)..Len(inputs) : inputs[p] = u}
                  N == Cardinality({n \in 1..Len(BuildImageData) :
                                       BuildImageData[n].url = u})
              IN  /\ Cardinality(slots) = 1
                  /\ \A p \in slots : OverlaysReading(p - 1) = N

\* C23: on every probe list the builder's scene timings are those of
\* calculate_scene_timings, and every overlay filter of a returned command is
\* enabled from the start to the end that calculate_scene_timings gives the
\* scene of its image element.
OverlayWindowsFollowTimeline ==
    /\ BuilderCalculateSceneTimings(bdAudioInfo) = CalculateSceneTimings(bdAudioInfo)
    /\ bdPc = "returned"
          => LET filters == bdCommand[1].filter_complex
                 scene_timings == CalculateSceneTimings(bdAudioInfo)
             IN  \A n \in 1..Len(filters) :
                    filters[n].kind = "overlay"
                       => \E k \in 1..Len(scene_timings) :
                             /\ scene_timings[k].scene_index
                                   = BuildImageData[filters[n].ins[2].n + 1].scene_index
                             /\ filters[n].nums[3] = scene_timings[k].start_time
                             /\ filters[n].nums[4] = scene_timings[k].end_time

\* probes listed out of scene order, and an overlay for an image of the
\* second scene: its window starts when the first scene ends
OverlayWindowsFollowTimelineWitness ==
    /\ bdPc = "returned"
    /\ Len(bdAudioInfo) = 2
    /\ bdAudioInfo[1].scene_index > bdAudioInfo[2].scene_index
    /\ \E n \in 1..Len(bdCommand[1].filter_complex) :
          /\ bdCommand[1].filter_complex[n].kind = "overlay"
          /\ bdCommand[1].filter_complex[n].nums[3] = bdAudioInfo[2].duration
          /\ bdCommand[1].filter_complex[n].nums[4]
                = bdAudioInfo[2].duration + bdAudioInfo[1].duration

(***************************************************************************)
(* Several calls of generate_ffmpeg_command on the one FFmpegService.      *)
(***************************************************************************)
MaxCalls == 3

\* arguments of a call: two scenes showing the same image, with and without
\* a caption file; a configuration without background; a scene without image
SampleArguments ==
    LET x == "https://cdn.test/x.png"
        config(scenes, background) ==
            [scenes |-> scenes, background |-> background,
             width |-> 1920, height |-> 1080]
        probe(scene_index, k, duration) ==
            [scene_index |-> scene_index, url |-> ProcessGdriveUrl(Locators[k]),
             duration |-> duration]
        arguments(c, audio_info, subtitle_file_path) ==
            [config |-> c, audio_info |-> audio_info,
             subtitle_file_path |-> subtitle_file_path]
    IN  {arguments(config(<<<<x>>, <<x>>>>, TRUE), <<probe(0, 1, 3), probe(1, 2, 5)>>,
                   "/tmp/x/subtitles.ass"),
         arguments(config(<<<<x>>, <<x>>>>, TRUE), <<probe(0, 1, 3), probe(1, 2, 5)>>, ""),
         arguments(config(<<<<x>>, <<x>>>>, FALSE), <<probe(0, 1, 3), probe(1, 2, 5)>>, ""),
         arguments(config(<<<<>>>>, TRUE), <<probe(0, 1, 3)>>, "")}

\* the next call on the same service object, with any arguments
GenerateFfmpegCommandAgain(arguments) ==
    /\ bdPc \in {"returned", "raised"}
    /\ Len(bdHistory) < MaxCalls
    /\ bdConfig' = arguments.config
    /\ bdAudioInfo' = arguments.audio_info
    /\ bdSubtitle' = arguments.subtitle_file_path
    /\ bdPc' = "call"
    /\ UNCHANGED <<bdRaised, bdCommand, bdHistory>>
    /\ UNCHANGED notBuildVars

InitBuildAgain ==
    /\ JobIdle /\ cfgCaptions = FALSE
    /\ AnalyzeIdle
    /\ TranscribeIdle
    /\ ColorIdle
    /\ ProgressIdle
    /\ ListIdle
    /\ SweepIdle
    /\ TimingsIdle /\ CaptionsIdle /\ PoolIdle /\ HangIdle /\ PipelineIdle
    /\ \E arguments \in SampleArguments :
          /\ bdConfig = arguments.config
          /\ bdAudioInfo = arguments.audio_info
          /\ bdSubtitle = arguments.subtitle_file_path
    /\ bdPc = "call" /\ bdRaised = <<>> /\ bdCommand = <<>> /\ bdHistory = <<>>

NextBuildAgain ==
    \/ GenerateFfmpegCommandCall
    \/ \E arguments \in SampleArguments : GenerateFfmpegCommandAgain(arguments)

SpecBuildAgain == InitBuildAgain /\ [][NextBuildAgain]_vars

ExecutorReportsProcessFailure ==
    /\ pvAttempts <= 1
    /\ pvProcess # <<>>
          => LET process == pvProcess[1]
                 exited == ~process.timeout /\ process.returncode # 0
             IN  /\ pvAttempts = 1
                 /\ (~process.timeout /\ process.returncode = 0) => pvFailure = <<>>
                 /\ process.timeout
                       => /\ pvFailure # <<>>
                          /\ pvFailure[1].message = <<"FFmpeg execution timed out">>
                 /\ exited
                       => /\ pvFailure # <<>>
                          /\ \E n \in 1..Len(pvFailure[1].message) :
                                pvFailure[1].message[n] = ToString(process.returncode)
                          /\ pvFailure[1].stderr = process.stderr
                 /\ (pvPc = "done" /\ pvFailure # <<>>)
                       => /\ pvStatus = FAILED
                          /\ pvError = pvFailure[1].message
                          /\ exited => \E n \in 1..Len(pvError) :
                                          pvError[n] = process.stderr

(***************************************************************************)
(* _cleanup_old_jobs beside the writers of one job.  Each write is one     *)
(* step: _update_job_file holds the exclusive lock from load to truncate.  *)
(***************************************************************************)
MaxClock == 4
RetentionHours == 1

\* _update_job_file(job_id, updates): nothing if the file does not exist
SweepUpdateJobFile(status, completed_at) ==
    IF swRecord = <<>> THEN swRecord
    ELSE <<[status |-> status, completed_at |-> completed_at]>>

SweepTick ==
    /\ swClock < MaxClock
    /\ swClock' = swClock + 1
    /\ UNCHANGED <<swRecord, swWorker, swPc, swCutoff, swSeen, swDeleted>>
    /\ UNCHANGED notSweepVars

\* cancel_job
SweepCancelJob ==
    /\ swRecord # <<>>
    /\ swRecord[1].status \in {PENDING, PROCESSING}
    /\ swRecord' = SweepUpdateJobFile(CANCELLED, <<swClock>>)
    /\ UNCHANGED <<swClock, swWorker, swPc, swCutoff, swSeen, swDeleted>>
    /\ UNCHANGED notSweepVars

\* run_job: update_job_status(job_id, PROCESSING, ...)
SweepRunJobStarts ==
    /\ swWorker = "queued"
    /\ swWorker' = "running"
    /\ swRecord' = IF swRecord = <<>> THEN swRecord
                   ELSE SweepUpdateJobFile(PROCESSING, swRecord[1].completed_at)
    /\ UNCHANGED <<swClock, swPc, swCutoff, swSeen, swDeleted>>
    /\ UNCHANGED notSweepVars

\* run_job: complete_job or fail_job
SweepRunJobEnds(status) ==
    /\ swWorker = "running"
    /\ swWorker' = "done"
    /\ swRecord' = SweepUpdateJobFile(status, <<swClock>>)
    /\ UNCHANGED <<swClock, swPc, swCutoff, swSeen, swDeleted>>
    /\ UNCHANGED notSweepVars

\* _cleanup_old_jobs: cutoff_time, glob, and _read_job_file of the job file
CleanupRead ==
    /\ swPc = "sleep"
    /\ swCutoff' = swClock - RetentionHours
    /\ swSeen' = swRecord
    /\ swPc' = IF swRecord = <<>> THEN "sleep" ELSE "read"
    /\ UNCHANGED <<swRecord, swClock, swWorker, swDeleted>>
    /\ UNCHANGED notSweepVars

\* _cleanup_old_jobs: the tests on job_data and job_file.unlink()
CleanupUnlink ==
    /\ swPc = "read"
    /\ swPc' = "sleep"
    /\ IF /\ swSeen[1].status \in {COMPLETED, FAILED, CANCELLED}
          /\ swSeen[1].completed_at # <<>>
          /\ swSeen[1].completed_at[1] < swCutoff
          /\ swRecord # <<>>
       THEN /\ swDeleted' = <<[status |-> swRecord[1].status,
                               completed_at |-> swRecord[1].completed_at,
                               at |-> swClock]>>
            /\ swRecord' = <<>>
       ELSE UNCHANGED <<swRecord, swDeleted>>
    /\ UNCHANGED <<swClock, swWorker, swCutoff, swSeen>>
    /\ UNCHANGED notSweepVars

InitSweep ==
    /\ JobIdle /\ cfgCaptions = FALSE
    /\ AnalyzeIdle
    /\ TranscribeIdle
    /\ ColorIdle
    /\ ProgressIdle
    /\ ListIdle
    /\ TimingsIdle /\ CaptionsIdle /\ PoolIdle /\ HangIdle /\ PipelineIdle
    /\ BuildIdle
    /\ swRecord = <<[status |-> PENDING, completed_at |-> <<>>]>>
    /\ swClock = 0 /\ swWorker = "queued" /\ swPc = "sleep"
    /\ swCutoff = 0 /\ swSeen = <<>> /\ swDeleted = <<>>

NextSweep ==
    \/ SweepTick
    \/ SweepCancelJob
    \/ SweepRunJobStarts
    \/ \E status \in {COMPLETED, FAILED} : SweepRunJobEnds(status)
    \/ CleanupRead
    \/ CleanupUnlink

SpecSweep == InitSweep /\ [][NextSweep]_vars

\* C26: the record the sweep deletes is Completed, Failed or Cancelled and
\* its completion time is more than the TTL before the time of the deletion,
\* whatever the job's writers do meanwhile.
SweepDeletesOnlyExpired ==
    swDeleted # <<>>
        => /\ swDeleted[1].status \in {COMPLETED, FAILED, CANCELLED}
           /\ swDeleted[1].completed_at # <<>>
           /\ swDeleted[1].completed_at[1] < swDeleted[1].at - RetentionHours

(***************************************************************************)
(* GET /jobs: the list_jobs route and FileJobService.list_jobs.            *)
(***************************************************************************)
MaxListJobs == 3
MaxLimit == 100

\* the job files: job k is the k-th created; st_mtime ranks the files by
\* their last write, in any order
JobFiles ==
    UNION {{[k \in 1..n |-> [job_id |-> k, status |-> status[k], mtime |-> mtime[k]]] :
               status \in [1..n -> {PENDING, PROCESSING, COMPLETED}],
               mtime \in {m \in [1..n -> 1..n] : \A a, b \in 1..n : a # b => m[a] # m[b]}}
              : n \in 0..MaxListJobs}

\* job_files.sort(key=lambda f: f.stat().st_mtime, reverse=True)
RECURSIVE SortByMtimeReversed(_)
SortByMtimeReversed(job_files) ==
    IF job_files = {} THEN <<>>
    ELSE LET f == CHOOSE x \in job_files : \A y \in job_files : x.mtime >= y.mtime
         IN  <<f>> \o SortByMtimeReversed(job_files \ {f})

\* job_files[:stop]
SliceTo(job_files, stop) ==
    IF stop >= 0 THEN SubSeq(job_files, 1, Min(stop, Len(job_files)))
    ELSE SubSeq(job_files, 1, Max(Len(job_files) + stop, 0))

\* the loop of list_jobs from the n-th file of the slice on
RECURSIVE ListJobsFrom(_, _, _, _, _)
ListJobsFrom(job_files, n, status, limit, jobs) ==
    IF n > Len(job_files) THEN jobs
    ELSE IF status = "" \/ job_files[n].status = status
    THEN IF Len(jobs) + 1 >= limit THEN Append(jobs, job_files[n])
         ELSE ListJobsFrom(job_files, n + 1, status, limit, Append(jobs, job_files[n]))
    ELSE ListJobsFrom(job_files, n + 1, status, limit, jobs)

\* the route: limit = min(int(limit), 100), then list_jobs(status, limit)
ListJobs(job_files, status, limit_arg) ==
    LET limit == Min(limit_arg, MaxLimit)
        sorted == SortByMtimeReversed({job_files[k] : k \in 1..Len(job_files)})
    IN  ListJobsFrom(SliceTo(sorted, limit * 2), 1, status, limit, <<>>)

ListJobsCall ==
    /\ lsPc = "call"
    /\ lsResult' = ListJobs(lsJobs, lsFilter, lsLimit)
    /\ lsPc' = "returned"
    /\ UNCHANGED <<lsJobs, lsFilter, lsLimit>>
    /\ UNCHANGED notListVars

InitList ==
    /\ JobIdle /\ cfgCaptions = FALSE
    /\ AnalyzeIdle
    /\ TranscribeIdle
    /\ ColorIdle
    /\ ProgressIdle
    /\ TimingsIdle /\ CaptionsIdle /\ PoolIdle /\ HangIdle /\ PipelineIdle
    /\ BuildIdle /\ SweepIdle
    /\ lsJobs \in JobFiles
    /\ lsFilter \in {"", PENDING, PROCESSING, COMPLETED}
    /\ lsLimit \in {-1, 0, 1, 2, 200}
    /\ lsPc = "call" /\ lsResult = <<>>

NextList == ListJobsCall

SpecList == InitList /\ [][NextList]_vars

\* C27: the response holds at most min(limit, 100) jobs, each of them has
\* the filtered status, and no job in it comes after a job created before it.
ListNewestFirst ==
    lsPc = "returned"
        => /\ Len(lsResult) <= Min(lsLimit, MaxLimit)
           /\ \A n \in 1..Len(lsResult) :
                 lsFilter # "" => lsResult[n].status = lsFilter
           /\ \A a, b \in 1..Len(lsResult) :
                 a < b => lsResult[a].job_id > lsResult[b].job_id

(***************************************************************************)
(* The progress of a job: create_job, update_job_progress,                 *)
(* update_job_status, complete_job and fail_job on one job file.           *)
(***************************************************************************)
MaxProgressCalls == 3
Percents == {-100, -1, 0, 1, 50, 99, 100, 101, 250}

ProgressRead == [ok |-> TRUE, data |-> pgJob[1]]

ProgressCalled(call, percent) ==
    /\ pgCalls < MaxProgressCalls
    /\ pgCalls' = pgCalls + 1
    /\ pgLast' = [call |-> call, percent |-> percent]
    /\ UNCHANGED notProgressVars

ProgressCreateJob ==
    /\ pgJob = <<>>
    /\ pgJob' = <<NewJobData>>
    /\ pgLast' = [call |-> "create_job", percent |-> 0]
    /\ UNCHANGED pgCalls
    /\ UNCHANGED notProgressVars

\* update_job_progress(job_id, progress, step)
UpdateJobProgress(progress, step) ==
    /\ pgJob # <<>>
    /\ pgJob' = <<Merge(pgJob[1],
                        UpdateJobStatusUpdates(ProgressRead, PROCESSING, step, TRUE, progress))>>
    /\ ProgressCalled("update_job_progress", progress)

\* update_job_status(job_id, status, current_step): progress is None
UpdateJobStatus(status, step) ==
    /\ pgJob # <<>>
    /\ pgJob' = <<Merge(pgJob[1],
                        UpdateJobStatusUpdates(ProgressRead, status, step, FALSE, 0))>>
    /\ ProgressCalled("update_job_status", 0)

ProgressCompleteJob ==
    /\ pgJob # <<>>
    /\ pgJob' = <<Merge(pgJob[1], CompleteJobUpdates(ProgressRead))>>
    /\ ProgressCalled("complete_job", 0)

ProgressFailJob ==
    /\ pgJob # <<>>
    /\ pgJob' = <<Merge(pgJob[1], FailJobUpdates("error"))>>
    /\ ProgressCalled("fail_job", 0)

InitProgress ==
    /\ JobIdle /\ cfgCaptions = FALSE
    /\ AnalyzeIdle
    /\ TranscribeIdle
    /\ ColorIdle
    /\ TimingsIdle /\ CaptionsIdle /\ PoolIdle /\ HangIdle /\ PipelineIdle
    /\ BuildIdle /\ SweepIdle /\ ListIdle
    /\ pgJob = <<>> /\ pgLast = [call |-> "none", percent |-> 0] /\ pgCalls = 0

NextProgress ==
    \/ ProgressCreateJob
    \/ \E progress \in Percents, step \in {None, "step"} : UpdateJobProgress(progress, step)
    \/ \E status \in {PROCESSING, CANCELLED}, step \in {None, "step"} : UpdateJobStatus(status, step)
    \/ ProgressCompleteJob
    \/ ProgressFailJob

SpecProgress == InitProgress /\ [][NextProgress]_vars

\* C28: the progress of a job is always in 0..100: it is 0 after create_job,
\* after update_job_progress it is the given percent if that lies in 0..100,
\* 0 if the percent is below 0 and 100 if it is above 100, and it is 100
\* after complete_job.
ProgressInRange ==
    pgJob # <<>>
        => /\ pgJob[1].progress \in 0..100
           /\ pgLast.call = "create_job" => pgJob[1].progress = 0
           /\ pgLast.call = "complete_job" => pgJob[1].progress = 100
           /\ pgLast.call = "update_job_progress"
                 => /\ pgLast.percent \in 0..100 => pgJob[1].progress = pgLast.percent
                    /\ pgLast.percent < 0 => pgJob[1].progress = 0
                    /\ pgLast.percent > 100 => pgJob[1].progress = 100

ProgressInRangeWitness ==
    /\ pgJob # <<>>
    /\ pgLast = [call |-> "update_job_progress", percent |-> 250]
    /\ pgJob[1].progress = 100
    /\ pgCalls = MaxProgressCalls

(***************************************************************************)
(* Caption colors: SubtitleService._parse_color and _is_valid_color.       *)
(* A string is the sequence of its characters.                             *)
(***************************************************************************)
MaxColorLength == 7
ColorChars == {"#", "0", "F", "G"}
HexDigits == {"0", "F"}
ColorStrings == UNION {[1..n -> ColorChars] : n \in 0..MaxColorLength}

White == <<"&", "H", "0", "0", "F", "F", "F", "F", "F", "F">>

\* hex_color.startswith('#')
StartsWithHash(color) == Len(color) > 0 /\ color[1] = "#"

ParseColor(hex_color) ==
    LET hex == IF StartsWithHash(hex_color) THEN Tail(hex_color) ELSE hex_color
    IN  IF Len(hex) = 6
        THEN <<"&", "H", "0", "0">>
                \o SubSeq(hex, 5, 6) \o SubSeq(hex, 3, 4) \o SubSeq(hex, 1, 2)
        ELSE White

\* int(hex_part, 16) raises ValueError for a character that is no hex digit
IsValidColor(color) ==
    /\ StartsWithHash(color)
    /\ Len(Tail(color)) = 6
    /\ \A n \in 2..Len(color) : color[n] \in HexDigits

ParseColorCall ==
    /\ clPc = "call"
    /\ clResult' = ParseColor(clColor)
    /\ clPc' = "returned"
    /\ UNCHANGED clColor
    /\ UNCHANGED notColorVars

InitColor ==
    /\ JobIdle /\ cfgCaptions = FALSE
    /\ AnalyzeIdle
    /\ TranscribeIdle
    /\ TimingsIdle /\ CaptionsIdle /\ PoolIdle /\ HangIdle /\ PipelineIdle
    /\ BuildIdle /\ SweepIdle /\ ListIdle /\ ProgressIdle
    /\ clColor \in ColorStrings
    /\ clPc = "call" /\ clResult = <<>>

NextColor == ParseColorCall

SpecColor == InitColor /\ [][NextColor]_vars

\* C30: a valid color #RRGGBB resolves to &H00BBGGRR, and every string that
\* is not a valid color, by its length or by a character that is no hex
\* digit, resolves to white.
ColorResolution ==
    clPc = "returned"
        => IF IsValidColor(clColor)
           THEN clResult = <<"&", "H", "0", "0", clColor[6], clColor[7],
                             clColor[4], clColor[5], clColor[2], clColor[3]>>
           ELSE clResult = White

(***************************************************************************)
(* generate_ffmpeg_command for background videos of every duration: the    *)
(* -stream_loop and -t arguments.                                          *)
(***************************************************************************)
\* the duration of the VideoElement: Optional[float], ge=0
LoopDurations == {<<>>, <<0>>, <<1>>, <<3>>, <<4>>, <<5>>, <<7>>, <<20>>}

LoopConfigs ==
    [scenes : {<< <<>> >>}, background : {TRUE}, width : {1920}, height : {1080},
     bg_duration : LoopDurations]

InitLoops ==
    /\ JobIdle /\ cfgCaptions = FALSE
    /\ AnalyzeIdle
    /\ TranscribeIdle
    /\ TimingsIdle /\ CaptionsIdle /\ PoolIdle /\ HangIdle /\ PipelineIdle
    /\ SweepIdle /\ ListIdle /\ ProgressIdle /\ ColorIdle
    /\ bdConfig \in LoopConfigs
    /\ bdAudioInfo \in BuildProbeLists
    /\ bdSubtitle = ""
    /\ bdPc = "call" /\ bdRaised = <<>> /\ bdCommand = <<>> /\ bdHistory = <<>>

NextLoops == GenerateFfmpegCommandCall

SpecLoops == InitLoops /\ [][NextLoops]_vars

\* C32: in a built command -t is the sum of the probe durations plus 2; when
\* the background's duration is known and positive, -stream_loop is the
\* number n with (n - 1) * bg_duration <= total < n * bg_duration, which is
\* floor(total / bg_duration) + 1; otherwise it is -1.
LoopCount ==
    bdPc = "returned"
        => LET total == SumProbeDurations(bdAudioInfo) + 2
               bg == bdConfig.bg_duration
               n == bdCommand[1].stream_loop
           IN  /\ bdCommand[1].t = total
               /\ (bg # <<>> /\ bg[1] > 0)
                     => /\ (n - 1) * bg[1] <= total
                        /\ n * bg[1] > total
               /\ (bg = <<>> \/ bg[1] <= 0) => n = -1

\* two probes of 5 and 3 seconds over a background of 5 seconds: the total
\* of 10 is a multiple of the background's duration, and it is looped 3 times
LoopCountWitness ==
    /\ bdPc = "returned"
    /\ bdConfig.bg_duration = <<5>>
    /\ bdCommand[1].t = 10
    /\ bdCommand[1].stream_loop = 3

(***************************************************************************)
(* generate_ffmpeg_command on the configurations _validate_config accepts: *)
(* the inputs and the filter graph of the command.                         *)
(***************************************************************************)
ValidBuildConfigs ==
    {config \in BuildConfigs :
        config.background /\ config.width > 0 /\ config.height > 0}

InitCommand ==
    /\ JobIdle /\ cfgCaptions = FALSE
    /\ AnalyzeIdle
    /\ TranscribeIdle
    /\ TimingsIdle /\ CaptionsIdle /\ PoolIdle /\ HangIdle /\ PipelineIdle
    /\ SweepIdle /\ ListIdle /\ ProgressIdle /\ ColorIdle
    /\ bdConfig \in ValidBuildConfigs
    /\ bdAudioInfo \in BuildProbeLists
    /\ bdSubtitle \in {"", "/tmp/x/subtitles.ass"}
    /\ bdPc = "call" /\ bdRaised = <<>> /\ bdCommand = <<>> /\ bdHistory = <<>>

NextCommand == GenerateFfmpegCommandCall

SpecCommand == InitCommand /\ [][NextCommand]_vars

\* the place of the first image element with this url in image_data
FirstSeen(url) ==
    CHOOSE n \in 1..Len(BuildImageData) :
        /\ BuildImageData[n].url = url
        /\ \A m \in 1..(n - 1) : BuildImageData[m].url # url

\* the labels the filters of the returned command read
LabelsRead ==
    LET filters == bdCommand[1].filter_complex
    IN  UNION {{filters[n].ins[k] : k \in 1..Len(filters[n].ins)}
                  : n \in 1..Len(filters)}

\* C33: in a returned command input 0 is the background, inputs 1..A are the
\* urls of the A probes in list order, inputs A+1..A+U are the U distinct
\* image urls, first seen first; every [k:a] read by a filter has
\* 1 <= k <= A, and every [k:v] read by a scale filter has A+1 <= k <= A+U
\* and input k holds the url of the image element the filter was made for.
\* Input k is inputs[k + 1].
InputIndexing ==
    bdPc = "returned"
        => LET inputs == bdCommand[1].inputs
               filters == bdCommand[1].filter_complex
               A == Len(bdAudioInfo)
               urls == {BuildImageData[n].url : n \in 1..Len(BuildImageData)}
               U == Cardinality(urls)
           IN  /\ Len(inputs) = 1 + A + U
               /\ inputs[1] = "https://cdn.test/bg.mp4"
               /\ \A k \in 1..A : inputs[k + 1] = bdAudioInfo[k].url
               /\ {inputs[k + 1] : k \in (A + 1)..(A + U)} = urls
               /\ \A k, l \in (A + 1)..(A + U) :
                     k < l => FirstSeen(inputs[k + 1]) < FirstSeen(inputs[l + 1])
               /\ \A label \in LabelsRead :
                     /\ label.s = "input:a" => label.n \in 1..A
                     /\ label.s = "input:v" => label.n \in (A + 1)..(A + U)
               /\ \A n \in 1..Len(filters) :
                     filters[n].kind = "scale"
                        => /\ filters[n].ins[1].s = "input:v"
                           /\ inputs[filters[n].ins[1].n + 1]
                                 = BuildImageData[filters[n].out.n + 1].url

\* two probes and two distinct images: the second image, the shared drive
\* file, is input 4 and a scale filter reads it
InputIndexingWitness ==
    /\ bdPc = "returned"
    /\ Len(bdAudioInfo) = 2
    /\ Len(bdCommand[1].inputs) = 5
    /\ \E n \in 1..Len(bdCommand[1].filter_complex) :
          /\ bdCommand[1].filter_complex[n].kind = "scale"
          /\ bdCommand[1].filter_complex[n].ins[1].n = 4
    /\ bdCommand[1].inputs[4] # "https://cdn.test/x.png"

\* the filters of the video chain of the returned command, by their places
VideoChain ==
    {n \in 1..Len(bdCommand[1].filter_complex) :
        bdCommand[1].filter_complex[n].kind \in {"overlay", "ass"}}

\* the video stream before the filter at place n: the output of the last
\* filter of the chain before it, or the background's video stream
VideoBefore(n) ==
    LET before == {m \in VideoChain : m < n}
    IN  IF before = {} THEN Label("0:v", 0)
        ELSE bdCommand[1].filter_complex[CHOOSE m \in before :
                                            \A l \in before : l <= m].out

\* C34: in a returned command the first overlay reads the background's video
\* stream and each later overlay the output of the overlay before it; the
\* caption filter is there exactly when a caption file was given, is the
\* last filter and reads the output of the last overlay, or the background's
\* video stream; the video mapped to the output is the output of the last
\* filter of this chain; and every label read, other than an input stream,
\* is the output of exactly one filter, an earlier one.
VideoChainWellFormed ==
    bdPc = "returned"
        => LET filters == bdCommand[1].filter_complex
           IN  /\ \A n \in VideoChain : filters[n].ins[1] = VideoBefore(n)
               /\ \A n \in 1..Len(filters) :
                     filters[n].kind = "ass" => n = Len(filters)
               /\ (bdSubtitle # "")
                     <=> (filters # <<>> /\ filters[Len(filters)].kind = "ass")
               /\ bdCommand[1].map_video = VideoBefore(Len(filters) + 1)
               /\ \A n \in 1..Len(filters) : \A k \in 1..Len(filters[n].ins) :
                     filters[n].ins[k].s \notin {"input:a", "input:v", "0:v"}
                        => /\ Cardinality({m \in 1..Len(filters) :
                                              filters[m].out = filters[n].ins[k]}) = 1
                           /\ \E m \in 1..(n - 1) : filters[m].out = filters[n].ins[k]

\* two overlays and the caption filter, which reads the second overlay
VideoChainWellFormedWitness ==
    /\ bdPc = "returned"
    /\ Cardinality(VideoChain) = 3
    /\ bdCommand[1].map_video = Label("subtitled_video", 0)
    /\ bdCommand[1].filter_complex[Len(bdCommand[1].filter_complex)].ins
          = <<Label("overlay", 1)>>

(***************************************************************************)
(* The audio of the built command against the timeline, on the probe lists *)
(* analyze_audio_durations returns. The concat filter plays its inputs one *)
(* after another, each for the length of its audio, which is what ffprobe  *)
(* reports for it when it succeeds.                                        *)
(***************************************************************************)
\* the probes in the order the audio filters of the command read them
ConcatenatedProbes(audio_info) ==
    LET first == GenerateAudioFilters([k \in 1..Len(audio_info) |-> audio_info[k].url])[1]
    IN  [k \in 1..Len(first.ins) |-> audio_info[first.ins[k].n]]

\* when the k-th of these probes starts to play
RECURSIVE PlayStart(_, _)
PlayStart(probes, k) ==
    IF k = 1 THEN 0
    ELSE PlayStart(probes, k - 1) + MeasuredDuration(probes[k - 1].url)

\* C36: for every probe list analyze returns, the audio inputs are
\* concatenated in ascending scene order and every audio source plays inside
\* the window calculate_scene_timings gives its scene, the sources of a
\* scene filling the window from its start to its end.
AudioFollowsTimeline ==
    (aPc = "returned" /\ aReturned.results # <<>>)
        => LET probes == ConcatenatedProbes(aReturned.results)
               scene_timings == CalculateSceneTimings(aReturned.results)
           IN  /\ Len(probes) = Len(aReturned.results)
               /\ \A k, l \in 1..Len(probes) :
                     k < l => probes[k].scene_index <= probes[l].scene_index
               /\ \A k \in 1..Len(probes) : \E n \in 1..Len(scene_timings) :
                     /\ scene_timings[n].scene_index = probes[k].scene_index
                     /\ scene_timings[n].start_time <= PlayStart(probes, k)
                     /\ PlayStart(probes, k + 1) <= scene_timings[n].end_time
                     /\ (k = 1 \/ probes[k - 1].scene_index # probes[k].scene_index)
                           => PlayStart(probes, k) = scene_timings[n].start_time
                     /\ (k = Len(probes) \/ probes[k + 1].scene_index # probes[k].scene_index)
                           => PlayStart(probes, k + 1) = scene_timings[n].end_time

\* the stored jobs that have the status asked for: all of them without a filter
ListMatching ==
    {k \in 1..Len(lsJobs) : lsFilter = "" \/ lsJobs[k].status = lsFilter}

\* C39: for a limit that is not negative the response holds exactly the
\* min(limit, M) most recently created of the M stored jobs that have the
\* status asked for, whatever other jobs are stored.
ListComplete ==
    (lsPc = "returned" /\ lsLimit >= 0)
        => LET n == Min(Min(lsLimit, MaxLimit), Cardinality(ListMatching))
           IN  /\ Len(lsResult) = n
               /\ {lsResult[i].job_id : i \in 1..Len(lsResult)}
                     = {k \in ListMatching :
                           Cardinality({l \in ListMatching : l > k}) < n}

=============================================================================
